---- MODULE Spec2Model ----
(***************************************************************************)
(* Verification model of HoopiPi (kidproquo/hoopi-pi-ng).                  *)
(*                                                                         *)
(* Part 1: one model slot (HoopiPi::ModelLoader) as it is driven by        *)
(*   - the audio thread   (Engine::processStereo -> ModelLoader::process   *)
(*                         -> ModelLoader::applyFade),                     *)
(*   - the slot's worker  (ModelLoader::workerThread -> doLoadModel),      *)
(*   - the control thread (IPCServer::serverLoop handles one request at a  *)
(*                         time: Engine::loadModelAsync, Engine::unloadModel).*)
(*                                                                         *)
(* Every shared-memory access of the source is one step, so that the       *)
(* unsynchronised accesses of the fade variables (plain float/int/enum     *)
(* members written by startFadeOut/startFadeIn and by applyFade) interleave *)
(* statement by statement.  Mutexes and condition variables are explicit.  *)
(* m_doRampDown / m_doRampUp are stored but never loaded anywhere in the   *)
(* source, so they carry no state here.                                    *)
(***************************************************************************)
EXTENDS Integers, FiniteSets, Sequences, TLC

(* ---- bounds ---- *)
\* ModelLoader.h:127 has FADE_SAMPLES = 256; the ramp is scaled down, gains
\* are counted in units of 1/FADE_SAMPLES (m_fadeGain = k means k/FADE_SAMPLES).
FADE_SAMPLES == 3
\* largest block length (numSamples) the audio thread passes to process()
MaxBlock == 2
\* number of loadModel / unloadModel requests the control thread issues
MaxOps == 3
\* AudioRecorder.h:260 has RING_BUFFER_SIZE = 960000 samples (480000 stereo
\* frames) and writerThreadFunc has BATCH_SIZE = 32768 samples (16384 frames);
\* both are scaled down and stay even, as in the source
RingFrames == 4
BatchFrames == 2
\* number of pushAudioFrame calls the audio thread makes
MaxPushes == 3
\* frames of a decoded backing-track file
TrackFrames == 3
\* number of commands the control thread sends to the backing track
MaxTrackOps == 4
\* number of fillBuffer calls the audio thread makes on its own
MaxFills == 3
\* number of process callbacks, and of commands (engine switches and
\* backing-track commands together) the control thread handles meanwhile
MaxCallbacks == 2
MaxEngOps == 4
\* number of setter calls the control thread makes on the EQ
MaxEqOps == 3
\* number of messages the control socket receives
MaxIpcOps == 3
\* number of setter calls on the reverb, and of process() calls
MaxReverbOps == 3
\* number of setter calls on the channel chains, and of blocks processed
MaxChainOps == 3
MaxChainBlocks == 2
\* number of operations on the runtime file
MaxCfgOps == 3

(* ---- values ---- *)
Paths == {"a.nam", "b.nam"}
NoPath == ""
NullModel == 0
ModelIds == {1, 2}
Free == "none"
RING_BUFFER_SIZE == 2 * RingFrames
\* a batch buffer of an odd number of samples
OddBatchSize == 2 * BatchFrames - 1
BATCH_SIZE == 2 * BatchFrames
\* sizeof(int16_t): bytes of one PCM sample in the file
BytesPerSample == 2
\* a zero sample written by memset, and a sample read outside the vectors;
\* the samples of the file are 0 .. TrackFrames - 1
Silence == -1
Garbage == -2
\* main_jack.cpp:403: seconds between two reconnection attempts
RETRY_INTERVAL_SECONDS == 5
\* ThreeBandEQ.h:85 clamps a band's gain to -20 .. +20 dB; scaled down
EqMaxDb == 1
\* gains the EQ setters are called with, one step outside the range
DbInputs == (-EqMaxDb - 1)..(EqMaxDb + 1)
\* frame arguments of setStartPosition / setStopPosition, one past the end
PosInputs == 0..(TrackFrames + 1)
\* no right input (inputR == nullptr)
NoInput == <<>>
\* the gain 1.0f in the fixed-point unit of the gain cells
UnityGain == 2
\* room sizes and wet levels the setters are called with, after clamping
RoomInputs == {0, 1}
\* enum class StereoMode
StereoModes == {"LeftMono2Stereo", "Stereo2Stereo", "RightMono2Stereo", "Stereo2Mono"}
WetInputs == {0, 1}
\* gains the setters are called with: silence, unity, twice unity
GainInputs == {0, UnityGain, 2 * UnityGain}

VARIABLES
    \* ModelLoader members
    m_ready, m_model, m_modelPath, m_modelMutex,
    m_fadeState, m_fadeSamplesRemaining, m_fadeGain,
    m_loadRequested, m_pendingModelPath, m_workerMutex, m_syncMutex,
    \* Engine members
    m_modelPaths,
    \* worker thread: position, locals of workerThread / doLoadModel
    wpc, pathToLoad, newModel, loadResult,
    \* control thread: position, the request being handled (or last handled)
    cpc, cOp, cArg, opsIssued,
    \* audio thread: position, locals of process / applyFade
    apc, numSamples, ai, aReady, aModel,
    \* history: applyFade has sent the completion notification of a fade-out
    \* since the last startFadeOut
    fadeOutSignalled

loaderVars == <<m_ready, m_model, m_modelPath, m_modelMutex>>
fadeVars   == <<m_fadeState, m_fadeSamplesRemaining, m_fadeGain>>
queueVars  == <<m_loadRequested, m_pendingModelPath, m_workerMutex>>
workerVars == <<wpc, pathToLoad, newModel, loadResult>>
ctrlVars   == <<cpc, cOp, cArg, opsIssued>>
audioVars  == <<apc, numSamples, ai, aReady, aModel>>

vars == <<loaderVars, fadeVars, queueVars, m_syncMutex, m_modelPaths,
          workerVars, ctrlVars, audioVars, fadeOutSignalled>>

(***************************************************************************)
(* Part 2: HoopiPi::AudioRecorder -- the ring between the audio thread     *)
(* (pushAudioFrame), the writer thread (writerThreadFunc, WAVWriter) and   *)
(* the control thread (startRecording / stopRecording).                    *)
(***************************************************************************)
VARIABLES
    \* AudioRecorder members
    m_recording, m_writePos, m_readPos, m_droppedFrames, m_writerThread,
    \* history: the ring slots holding a sample that pushAudioFrame stored and
    \* the writer thread has not read (a reset of the positions discards them)
    unreadSlots,
    \* control thread: position in startRecording / stopRecording, last call
    rpc, rLast, recOps,
    \* audio thread: position and locals of pushAudioFrame, calls made
    ppc, pWritePos, pReadPos, pNum, pI, pushes,
    \* writer thread: position and locals of writerThreadFunc
    tpc, tReadPos, toRead, tI,
    \* the WAVWriter of the writer thread: m_file.is_open(), m_dataSize; the
    \* file: PCM bytes after the header, the two length fields of the header
    wavOpen, m_dataSize, pcmBytes, hdrDataLen, hdrChunkSize

ringVars   == <<m_recording, m_writePos, m_readPos, m_droppedFrames, m_writerThread,
                unreadSlots>>
recCtlVars == <<rpc, rLast, recOps>>
pushVars   == <<ppc, pWritePos, pReadPos, pNum, pI, pushes>>
writerVars == <<tpc, tReadPos, toRead, tI>>
wavVars    == <<wavOpen, m_dataSize, pcmBytes, hdrDataLen, hdrChunkSize>>
recVars    == <<ringVars, recCtlVars, pushVars, writerVars, wavVars>>

\* AudioRecorder after construction: not recording, no writer thread
RecInit ==
    /\ m_recording = FALSE
    /\ m_writePos = 0
    /\ m_readPos = 0
    /\ m_droppedFrames = 0
    /\ m_writerThread = "none"
    /\ unreadSlots = {}
    /\ rpc = "r_idle"
    /\ rLast = "none"
    /\ recOps = 0
    /\ ppc = "p_idle"
    /\ pWritePos = 0
    /\ pReadPos = 0
    /\ pNum = 0
    /\ pI = 0
    /\ pushes = 0
    /\ tpc = "t_none"
    /\ tReadPos = 0
    /\ toRead = 0
    /\ tI = 0
    /\ wavOpen = FALSE
    /\ m_dataSize = 0
    /\ pcmBytes = 0
    /\ hdrDataLen = 0
    /\ hdrChunkSize = 0

(***************************************************************************)
(* Part 3: BackingTrack -- the transport cells and the audio vectors,      *)
(* between the control thread (loadFile, play, stop, ...) and the audio    *)
(* thread (fillBuffer).                                                    *)
(***************************************************************************)
VARIABLES
    \* BackingTrack members: audioDataL_.size() (= audioDataR_.size()),
    \* totalFrames_ (plain) and the atomic transport cells
    audioDataLen, totalFrames_, playbackPosition_, isPlaying_, loopEnabled_,
    startFrame_, stopFrame_,
    \* control thread: position inside loadFile / play / stop, calls made
    bpc, trackOps,
    \* audio thread: position and locals of fillBuffer (numFrames, i, pos,
    \* loop, startFrame, endFrame), the output block, calls made
    fpc, fNum, fI, fPos, fLoop, fStart, fEnd, fOut, fills,
    \* history: frames emitted since the last play(), provided no fillBuffer
    \* call was in progress during that play() and no other command was
    \* issued since (-1 otherwise); whether the playing flag was last cleared
    \* by fillBuffer at the end of the track
    playSeq, endReached

trackCells == <<audioDataLen, totalFrames_, playbackPosition_, isPlaying_,
                loopEnabled_, startFrame_, stopFrame_>>
trackCtl   == <<bpc, trackOps>>
fillVars   == <<fpc, fNum, fI, fPos, fLoop, fStart, fEnd, fOut, fills>>
trackHist  == <<playSeq, endReached>>
trackVars  == <<trackCells, trackCtl, fillVars, trackHist>>

\* BackingTrack::BackingTrack: nothing loaded, stopped, loop enabled
TrackInit ==
    /\ audioDataLen = 0
    /\ totalFrames_ = 0
    /\ playbackPosition_ = 0
    /\ isPlaying_ = FALSE
    /\ loopEnabled_ = TRUE
    /\ startFrame_ = 0
    /\ stopFrame_ = 0
    /\ bpc = "b_idle"
    /\ trackOps = 0
    /\ fpc = "f_idle"
    /\ fNum = 0
    /\ fI = 0
    /\ fPos = 0
    /\ fLoop = FALSE
    /\ fStart = 0
    /\ fEnd = 0
    /\ fOut = <<>>
    /\ fills = 0
    /\ playSeq = -1
    /\ endReached = FALSE

(***************************************************************************)
(* Part 4: one JACK process callback -- JackBackend::process calling       *)
(* Engine::processStereo and then mixing the backing track -- and the      *)
(* control thread's switches (bypass, recording, include-in-recording).    *)
(***************************************************************************)
VARIABLES
    \* Engine members: m_bypass, m_includeBackingTrackInRecording; the state
    \* the DSP chain keeps between blocks, as the number of smoothGains calls
    \* and of blocks run through the chain (gate, slots, EQ, reverb)
    m_bypass, m_includeBackingTrackInRecording, smoothCalls, dspBlocks,
    \* m_xrunCount; the left input gain: the target cell the setters store
    \* (m_inputGainLinearL) and the smoothed value the audio thread keeps
    \* (m_currentInputGainL), in units of 1/UnityGain
    m_xrunCount, m_inputGainLinearL, m_currentInputGainL,
    \* audio thread: position in the callback, the port buffers of the block,
    \* Engine's bufL / bufR, the block handed to pushAudioFrame
    epc, inputL, inputR, bufL, bufR, outputL, outputR, pushedL, pushedR,
    \* control thread: switches made; audio thread: callbacks made
    engOps, callbacks,
    \* history: samples the callback in progress has taken from the track
    cbFrames

gainCells == <<m_inputGainLinearL, m_currentInputGainL>>
engCells == <<m_bypass, m_includeBackingTrackInRecording, smoothCalls, dspBlocks,
              m_xrunCount, gainCells>>
cbVars   == <<epc, inputL, inputR, bufL, bufR, outputL, outputR, pushedL, pushedR>>
engCtl   == <<engOps, callbacks>>
engVars  == <<engCells, cbVars, engCtl, cbFrames>>

\* Engine after construction and init(): Engine.h:571, 586, 608 and
\* Engine.cpp:56-66
EngInit ==
    /\ m_bypass = FALSE
    /\ m_includeBackingTrackInRecording = FALSE
    /\ smoothCalls = 0
    /\ dspBlocks = 0
    /\ m_xrunCount = 0
    /\ m_inputGainLinearL = UnityGain
    /\ m_currentInputGainL = UnityGain
    /\ epc = "e_idle"
    /\ inputL = <<>>
    /\ inputR = <<>>
    /\ bufL = <<>>
    /\ bufR = <<>>
    /\ outputL = <<>>
    /\ outputR = <<>>
    /\ pushedL = <<>>
    /\ pushedR = <<>>
    /\ engOps = 0
    /\ callbacks = 0
    /\ cbFrames = 0

(***************************************************************************)
(* Part 6: one ThreeBandEQ -- the audio thread's process(sample) and the   *)
(* control thread's setters.                                               *)
(***************************************************************************)
VARIABLES
    \* ThreeBandEQ members: m_enabled, m_bass, m_mid, m_coeffsDirty, and the
    \* coefficient sets m_bassCoeffs, m_midCoeffs (treble is handled like mid)
    m_enabled, m_bass, m_mid, m_coeffsDirty, m_bassCoeffs, m_midCoeffs,
    \* audio thread: position in process(); control thread: position in a
    \* setter, setter calls made
    qpc, spc, eqOps

eqCells == <<m_enabled, m_bass, m_mid, m_coeffsDirty, m_bassCoeffs, m_midCoeffs>>
eqVars  == <<eqCells, qpc, spc, eqOps>>

(***************************************************************************)
(* Part 7: the end of a ModelLoader -- the worker's loop around its        *)
(* condition wait, loadModelAsync and the destructor.  m_loadRequested and *)
(* m_workerMutex are the cells of part 1.                                  *)
(***************************************************************************)
VARIABLES
    \* ModelLoader member m_workerRunning
    m_workerRunning,
    \* worker thread: position in workerThread; main thread: position in
    \* loadModelAsync / ~ModelLoader, loadModelAsync calls made
    kpc, xpc, stopOps

stopVars == <<m_workerRunning, kpc, xpc, stopOps>>

(***************************************************************************)
(* Part 8: the JACK connection -- JackBackend::init / start / reconnect,   *)
(* JACK's shutdown callback and the supervisor loop of main().             *)
(***************************************************************************)
VARIABLES
    \* JackBackend members: m_status, m_running, m_shutdownCalled, and
    \* whether m_client is an open client
    m_status, m_running, m_shutdownCalled, m_client,
    \* main(): position, jackConnected, whole seconds since lastRetryTime
    \* (counted up to RETRY_INTERVAL_SECONDS)
    mpc, jackConnected, elapsed,
    \* the JACK server is up
    serverUp

jackCells == <<m_status, m_running, m_shutdownCalled, m_client>>
jackVars  == <<jackCells, mpc, jackConnected, elapsed, serverUp>>

(***************************************************************************)
(* Part 9: the control socket -- IPCServer::handleCommand, the engine      *)
(* cells it sets and the runtime document of ConfigPersistence.  m_bypass, *)
(* m_includeBackingTrackInRecording and m_recording are the cells of parts *)
(* 4 and 2.                                                                *)
(***************************************************************************)
VARIABLES
    \* Engine members: m_activeSlot, m_activeSlotL, m_activeSlotR,
    \* m_bypassModel
    m_activeSlot, m_activeSlotL, m_activeSlotR, m_bypassModel,
    \* runtime.json on disk: whether it holds a complete document, and the
    \* document
    runtimeFile,
    \* the two model slots as the control socket and the audio thread see
    \* them: "empty", "loading" (loadModelAsync called, worker not done) or
    \* "ready" (isReady())
    slotState,
    \* server thread: position in handleCommand, the message being handled
    \* (or last handled), the calls the handler has made for it, the response
    \* document, requests handled
    hpc, request, calls, response, ipcOps

slotCells == <<m_activeSlot, m_activeSlotL, m_activeSlotR>>
ipcVars   == <<slotCells, m_bypassModel, runtimeFile, slotState, hpc, request, calls,
               response, ipcOps>>

(***************************************************************************)
(* Part 10: the Reverb -- its atomic parameter cells, the plain members of *)
(* Reverb::Impl that processStereo reads, the control thread's setters     *)
(* with reconfigure(), and the audio thread's process().                   *)
(***************************************************************************)
VARIABLES
    \* Reverb members m_enabled, m_roomSize, m_wet (m_decayTime and m_dry are
    \* handled like m_roomSize and m_wet)
    reverbEnabled, m_roomSize, m_wet,
    \* Reverb::Impl: wet, and of the delay lines (all configured alike) the
    \* read offset delaySamples[c] and the length of delays[c]
    wet, delaySamples, delayLength,
    \* audio thread: position and loop index of process(), its block length,
    \* what the last sample was computed from, calls made
    vpc, vI, vNum, vLast, reverbBlocks,
    \* control thread: position in a setter, setter calls made
    gpc, reverbOps

reverbCells == <<reverbEnabled, m_roomSize, m_wet>>
implVars    == <<wet, delaySamples, delayLength>>
reverbAudio == <<vpc, vI, vNum, vLast, reverbBlocks>>
reverbVars  == <<reverbCells, implVars, reverbAudio, gpc, reverbOps>>

(***************************************************************************)
(* Part 11: the two channel chains of Engine::processStereo -- what each   *)
(* output block went through -- and the cells that select them.            *)
(* m_activeSlotL, m_activeSlotR and slotState are the cells of part 9.     *)
(***************************************************************************)
VARIABLES
    \* Engine members: m_stereoMode, m_bypassModelL, m_bypassModelR,
    \* m_noiseGateEnabledR; the right input gain: target cell and smoothed
    \* value, in units of 1/UnityGain
    m_stereoMode, m_bypassModelL, m_bypassModelR, m_noiseGateEnabledR,
    m_inputGainLinearR, m_currentInputGainR,
    \* blocks that m_noiseGateR, m_eqR and m_dcBlockerR have processed (each
    \* process call advances the filter's state)
    rightBlocks,
    \* the stages bufL and bufR of the last block went through, in order
    stagesL, stagesR,
    \* setter calls made, blocks processed
    chainOps, chainBlocks

chainCells == <<m_stereoMode, m_bypassModelL, m_bypassModelR, m_noiseGateEnabledR,
                m_inputGainLinearR>>
chainVars  == <<chainCells, m_currentInputGainR, rightBlocks, stagesL, stagesR, chainOps,
                chainBlocks>>

(***************************************************************************)
(* Part 12: ConfigPersistence -- the runtime document on disk as the       *)
(* load-modify-save operations find and leave it.                          *)
(***************************************************************************)
VARIABLES
    \* the file: what it holds ("missing", "object": a JSON object, "array":
    \* JSON that is not an object, "corrupt": not JSON), the object it holds,
    \* and whether it can be opened for reading
    configFile,
    \* the last save operation: its group and how it ended ("saved",
    \* "not_opened": save returned false, "threw"); operations made
    cfgLast, cfgOps

cfgVars == <<configFile, cfgLast, cfgOps>>

\* the variables of parts 10 and later
lastVars == <<reverbVars, chainVars, cfgVars>>

\* the variables of parts 6 and later
laterVars == <<eqVars, stopVars, jackVars, ipcVars, lastVars>>

\* what each part leaves alone: the variables of the other parts
outsideLoader   == <<recVars, trackVars, engVars, laterVars>>
outsideRecorder == <<vars, trackVars, engVars, laterVars>>
outsideTrack    == <<vars, recVars, engVars, laterVars>>
outsideEq       == <<vars, recVars, trackVars, engVars, stopVars, jackVars, ipcVars,
                     lastVars>>
\* part 7 uses m_loadRequested and m_workerMutex of part 1
loaderRest      == <<loaderVars, fadeVars, m_pendingModelPath, m_syncMutex, m_modelPaths,
                     workerVars, ctrlVars, audioVars, fadeOutSignalled>>
outsideStop     == <<loaderRest, recVars, trackVars, engVars, eqVars, jackVars, ipcVars,
                     lastVars>>
outsideJack     == <<vars, recVars, trackVars, engVars, eqVars, stopVars, ipcVars,
                     lastVars>>
\* part 9 sets m_bypass and m_includeBackingTrackInRecording of part 4 and
\* m_recording of part 2
outsideIpc      == <<vars, m_writePos, m_readPos, m_droppedFrames, m_writerThread,
                     unreadSlots, recCtlVars, pushVars, writerVars, wavVars, trackVars, smoothCalls, dspBlocks, m_xrunCount,
                     gainCells, cbVars, engCtl, cbFrames, eqVars, stopVars, jackVars,
                     lastVars>>
firstVars       == <<vars, recVars, trackVars, engVars, eqVars, stopVars, jackVars>>
outsideReverb   == <<firstVars, ipcVars, chainVars, cfgVars>>
\* part 11 uses m_activeSlotL, m_activeSlotR and slotState of part 9
outsideChain    == <<firstVars, m_activeSlot, m_bypassModel, runtimeFile, hpc, request,
                     calls, response, ipcOps, reverbVars, cfgVars>>
outsideCfg      == <<firstVars, ipcVars, reverbVars, chainVars>>
\* the callback reads the recorder's m_recording and calls fillBuffer
recOther        == <<m_writePos, m_readPos, m_droppedFrames, m_writerThread,
                     unreadSlots, recCtlVars, pushVars, writerVars, wavVars>>

Init ==
    /\ m_ready = FALSE
    /\ m_model = NullModel
    /\ m_modelPath = NoPath
    /\ m_modelMutex = Free
    /\ m_fadeState = "Idle"
    /\ m_fadeSamplesRemaining = 0
    /\ m_fadeGain = 0
    /\ m_loadRequested = FALSE
    /\ m_pendingModelPath = NoPath
    /\ m_workerMutex = Free
    /\ m_syncMutex = Free
    /\ m_modelPaths = NoPath
    /\ wpc = "w_lock"
    /\ pathToLoad = NoPath
    /\ newModel = NullModel
    /\ loadResult = "none"
    /\ cpc = "c_idle"
    /\ cOp = "none"
    /\ cArg = NoPath
    /\ opsIssued = 0
    /\ apc = "a_idle"
    /\ numSamples = 0
    /\ ai = 0
    /\ aReady = FALSE
    /\ aModel = NullModel
    /\ fadeOutSignalled = FALSE

(***************************************************************************)
(* Condition variables.  A thread blocked in wait()/wait_for() sits at a   *)
(* "*_sleep" position; a notification moves it to the position where it    *)
(* re-acquires the mutex; a notification that finds nobody asleep is lost. *)
(***************************************************************************)
\* m_workerCV.notify_one(): only the worker ever waits on m_workerCV
NotifyWorkerCV(pc) == IF pc = "w_sleep" THEN "w_lock" ELSE pc

\* m_syncCV.notify_all(): the worker (doLoadModel) and the control thread
\* (unloadModel) may both be asleep on it
NotifySyncWorker(pc) == IF pc = "d_sleep" THEN "d_woken" ELSE pc
NotifySyncCtrl(pc)   == IF pc = "u_sleep" THEN "u_woken" ELSE pc


(***************************************************************************)
(* Fade requests: ModelLoader::startFadeOut / startFadeIn.  Three plain    *)
(* (non-atomic, unlocked) member writes, executed by the calling thread.   *)
(***************************************************************************)
\* m_fadeState = FadeState::X
WriteFadeState(s) ==
    /\ m_fadeState' = s
    /\ UNCHANGED <<m_fadeSamplesRemaining, m_fadeGain>>

\* m_fadeSamplesRemaining = FADE_SAMPLES
WriteFadeRemaining ==
    /\ m_fadeSamplesRemaining' = FADE_SAMPLES
    /\ UNCHANGED <<m_fadeState, m_fadeGain>>

\* m_fadeGain = 1.0f (fade-out) or 0.0f (fade-in)
WriteFadeGain(g) ==
    /\ m_fadeGain' = g
    /\ UNCHANGED <<m_fadeState, m_fadeSamplesRemaining>>

(***************************************************************************)
(* Control thread.  IPCServer::serverLoop handles one request at a time,   *)
(* so the requests of the control socket are sequential.                   *)
(***************************************************************************)
\* handleCommand "loadModel" -> Engine::loadModelAsync(slot, modelPath)
\* the same stores without holding m_workerMutex
LoadModelAsyncStoreUnlocked(p) ==
    /\ m_pendingModelPath' = p
    /\ m_loadRequested' = TRUE
    /\ UNCHANGED m_workerMutex

\* and ModelLoader::loadModelAsync, the block under lock_guard(m_workerMutex):
\* lock, m_pendingModelPath = modelPath, m_loadRequested.store(true), unlock
LoadModelAsyncStore(p) ==
    /\ m_workerMutex = Free
    /\ m_pendingModelPath' = p
    /\ m_loadRequested' = TRUE
    /\ UNCHANGED m_workerMutex

LoadModelAsync(p) ==
    /\ cpc = "c_idle"
    /\ opsIssued < MaxOps
    /\ LoadModelAsyncStore(p)
    /\ cpc' = "l_notify"
    /\ cOp' = "load"
    /\ cArg' = p
    /\ opsIssued' = opsIssued + 1
    /\ UNCHANGED <<loaderVars, fadeVars, m_syncMutex, m_modelPaths,
                   workerVars, audioVars, fadeOutSignalled>>
    /\ UNCHANGED outsideLoader

\* m_workerCV.notify_one()
LoadModelAsyncNotify ==
    /\ cpc = "l_notify"
    /\ wpc' = NotifyWorkerCV(wpc)
    /\ cpc' = "l_engpath"
    /\ UNCHANGED <<loaderVars, fadeVars, queueVars, m_syncMutex, m_modelPaths,
                   pathToLoad, newModel, loadResult, cOp, cArg, opsIssued,
                   audioVars, fadeOutSignalled>>
    /\ UNCHANGED outsideLoader

\* Engine::loadModelAsync: m_modelPaths[slot] = modelPath
EngineLoadSetPath ==
    /\ cpc = "l_engpath"
    /\ m_modelPaths' = cArg
    /\ cpc' = "c_idle"
    /\ UNCHANGED <<loaderVars, fadeVars, queueVars, m_syncMutex,
                   workerVars, cOp, cArg, opsIssued, audioVars, fadeOutSignalled>>
    /\ UNCHANGED outsideLoader

\* handleCommand "unloadModel" -> Engine::unloadModel(slot) -> ModelLoader::unloadModel
IssueUnload ==
    /\ cpc = "c_idle"
    /\ opsIssued < MaxOps
    /\ cpc' = "u_fs"
    /\ cOp' = "unload"
    /\ cArg' = NoPath
    /\ opsIssued' = opsIssued + 1
    /\ UNCHANGED <<loaderVars, fadeVars, queueVars, m_syncMutex, m_modelPaths,
                   workerVars, audioVars, fadeOutSignalled>>
    /\ UNCHANGED outsideLoader

\* unloadModel: startFadeOut(), one member write per step
UnloadFadeOutState ==
    /\ cpc = "u_fs"
    /\ WriteFadeState("FadingOut")
    /\ cpc' = "u_rem"
    /\ fadeOutSignalled' = FALSE
    /\ UNCHANGED <<loaderVars, queueVars, m_syncMutex, m_modelPaths,
                   workerVars, cOp, cArg, opsIssued, audioVars>>
    /\ UNCHANGED outsideLoader

UnloadFadeOutRemaining ==
    /\ cpc = "u_rem"
    /\ WriteFadeRemaining
    /\ cpc' = "u_gain"
    /\ UNCHANGED <<loaderVars, queueVars, m_syncMutex, m_modelPaths,
                   workerVars, cOp, cArg, opsIssued, audioVars, fadeOutSignalled>>
    /\ UNCHANGED outsideLoader

UnloadFadeOutGain ==
    /\ cpc = "u_gain"
    /\ WriteFadeGain(FADE_SAMPLES)
    /\ cpc' = "u_slock"
    /\ UNCHANGED <<loaderVars, queueVars, m_syncMutex, m_modelPaths,
                   workerVars, cOp, cArg, opsIssued, audioVars, fadeOutSignalled>>
    /\ UNCHANGED outsideLoader

\* unloadModel: unique_lock lock(m_syncMutex) -- held until the function
\* returns -- (or the re-acquisition after a notification woke the wait), then
\* the wait_for predicate: m_fadeState == Idle ends the wait
UnloadLockSync ==
    /\ cpc \in {"u_slock", "u_woken"}
    /\ m_syncMutex = Free
    /\ m_syncMutex' = "control"
    /\ cpc' = IF m_fadeState = "Idle" THEN "u_mlock" ELSE "u_block"
    /\ UNCHANGED <<loaderVars, fadeVars, queueVars, m_modelPaths,
                   workerVars, cOp, cArg, opsIssued, audioVars, fadeOutSignalled>>
    /\ UNCHANGED outsideLoader

\* wait_for: release m_syncMutex and block on m_syncCV
UnloadWaitBlock ==
    /\ cpc = "u_block"
    /\ m_syncMutex' = Free
    /\ cpc' = "u_sleep"
    /\ UNCHANGED <<loaderVars, fadeVars, queueVars, m_modelPaths,
                   workerVars, cOp, cArg, opsIssued, audioVars, fadeOutSignalled>>
    /\ UNCHANGED outsideLoader

\* wait_for: the 100 ms elapse; the wait re-acquires the mutex and returns
\* whatever the predicate says (the return value is ignored)
UnloadWaitTimeout ==
    /\ cpc = "u_sleep"
    /\ cpc' = "u_timedout"
    /\ UNCHANGED <<loaderVars, fadeVars, queueVars, m_syncMutex, m_modelPaths,
                   workerVars, cOp, cArg, opsIssued, audioVars, fadeOutSignalled>>
    /\ UNCHANGED outsideLoader

UnloadWaitTimeoutRelock ==
    /\ cpc = "u_timedout"
    /\ m_syncMutex = Free
    /\ m_syncMutex' = "control"
    /\ cpc' = "u_mlock"
    /\ UNCHANGED <<loaderVars, fadeVars, queueVars, m_modelPaths,
                   workerVars, cOp, cArg, opsIssued, audioVars, fadeOutSignalled>>
    /\ UNCHANGED outsideLoader

\* unloadModel: lock_guard modelLock(m_modelMutex)
UnloadLockModel ==
    /\ cpc = "u_mlock"
    /\ m_modelMutex = Free
    /\ m_modelMutex' = "control"
    /\ cpc' = "u_reset"
    /\ UNCHANGED <<m_ready, m_model, m_modelPath, fadeVars, queueVars, m_syncMutex,
                   m_modelPaths, workerVars, cOp, cArg, opsIssued, audioVars, fadeOutSignalled>>
    /\ UNCHANGED outsideLoader

\* unloadModel: m_model.reset() destroys the installed model; end of the block
\* releases m_modelMutex
UnloadResetModel ==
    /\ cpc = "u_reset"
    /\ m_model' = NullModel
    /\ m_modelMutex' = Free
    /\ cpc' = "u_ready"
    /\ UNCHANGED <<m_ready, m_modelPath, fadeVars, queueVars, m_syncMutex,
                   m_modelPaths, workerVars, cOp, cArg, opsIssued, audioVars, fadeOutSignalled>>
    /\ UNCHANGED outsideLoader

\* unloadModel: m_ready.store(false)
UnloadClearReady ==
    /\ cpc = "u_ready"
    /\ m_ready' = FALSE
    /\ cpc' = "u_path"
    /\ UNCHANGED <<m_model, m_modelPath, m_modelMutex, fadeVars, queueVars, m_syncMutex,
                   m_modelPaths, workerVars, cOp, cArg, opsIssued, audioVars, fadeOutSignalled>>
    /\ UNCHANGED outsideLoader

\* unloadModel: m_modelPath.clear(); return (the unique_lock releases m_syncMutex)
UnloadClearPath ==
    /\ cpc = "u_path"
    /\ m_modelPath' = NoPath
    /\ m_syncMutex' = Free
    /\ cpc' = "u_engpath"
    /\ UNCHANGED <<m_ready, m_model, m_modelMutex, fadeVars, queueVars,
                   m_modelPaths, workerVars, cOp, cArg, opsIssued, audioVars, fadeOutSignalled>>
    /\ UNCHANGED outsideLoader

\* Engine::unloadModel: m_modelPaths[slot] = ""
EngineUnloadClearPath ==
    /\ cpc = "u_engpath"
    /\ m_modelPaths' = NoPath
    /\ cpc' = "c_idle"
    /\ UNCHANGED <<loaderVars, fadeVars, queueVars, m_syncMutex,
                   workerVars, cOp, cArg, opsIssued, audioVars, fadeOutSignalled>>
    /\ UNCHANGED outsideLoader

Control ==
    \/ \E p \in Paths : LoadModelAsync(p)
    \/ LoadModelAsyncNotify
    \/ EngineLoadSetPath
    \/ IssueUnload
    \/ UnloadFadeOutState
    \/ UnloadFadeOutRemaining
    \/ UnloadFadeOutGain
    \/ UnloadLockSync
    \/ UnloadWaitBlock
    \/ UnloadWaitTimeout
    \/ UnloadWaitTimeoutRelock
    \/ UnloadLockModel
    \/ UnloadResetModel
    \/ UnloadClearReady
    \/ UnloadClearPath
    \/ EngineUnloadClearPath


(***************************************************************************)
(* Worker thread: ModelLoader::workerThread and doLoadModel.               *)
(***************************************************************************)
ctrlAndAudio == <<ctrlVars, audioVars>>

\* workerThread: unique_lock lock(m_workerMutex) (also the re-acquisition
\* inside m_workerCV.wait after a notification)
\* then the m_workerCV.wait predicate (m_loadRequested || !m_workerRunning);
\* when it is false the wait releases the mutex and blocks.  m_loadRequested
\* changes only under m_workerMutex, so lock, test and block are one step.
WorkerWait ==
    /\ wpc = "w_lock"
    /\ m_workerMutex = Free
    /\ IF m_loadRequested
          THEN /\ wpc' = "w_take"
               /\ m_workerMutex' = "worker"
          ELSE /\ wpc' = "w_sleep"
               /\ UNCHANGED m_workerMutex
    /\ UNCHANGED <<loaderVars, fadeVars, m_loadRequested, m_pendingModelPath,
                   m_syncMutex, m_modelPaths, pathToLoad, newModel, loadResult,
                   ctrlAndAudio, fadeOutSignalled>>
    /\ UNCHANGED outsideLoader

\* workerThread: std::string pathToLoad = m_pendingModelPath
WorkerTakePath ==
    /\ wpc = "w_take"
    /\ pathToLoad' = m_pendingModelPath
    /\ wpc' = "w_clear"
    /\ UNCHANGED <<loaderVars, fadeVars, queueVars, m_syncMutex, m_modelPaths,
                   newModel, loadResult, ctrlAndAudio, fadeOutSignalled>>
    /\ UNCHANGED outsideLoader

\* workerThread: m_loadRequested.store(false); lock.unlock(); doLoadModel(pathToLoad)
WorkerClearRequest ==
    /\ wpc = "w_clear"
    /\ m_loadRequested' = FALSE
    /\ m_workerMutex' = Free
    /\ wpc' = "d_ready"
    /\ loadResult' = "running"
    /\ UNCHANGED <<loaderVars, fadeVars, m_pendingModelPath, m_syncMutex, m_modelPaths,
                   pathToLoad, newModel, ctrlAndAudio, fadeOutSignalled>>
    /\ UNCHANGED outsideLoader

\* doLoadModel: if (m_ready.load()) { startFadeOut(); ... }
DoLoadCheckReady ==
    /\ wpc = "d_ready"
    /\ wpc' = IF m_ready THEN "d_fs" ELSE "d_clear"
    /\ UNCHANGED <<loaderVars, fadeVars, queueVars, m_syncMutex, m_modelPaths,
                   pathToLoad, newModel, loadResult, ctrlAndAudio, fadeOutSignalled>>
    /\ UNCHANGED outsideLoader

\* doLoadModel: startFadeOut(), one member write per step
DoLoadFadeOutState ==
    /\ wpc = "d_fs"
    /\ WriteFadeState("FadingOut")
    /\ wpc' = "d_rem"
    /\ fadeOutSignalled' = FALSE
    /\ UNCHANGED <<loaderVars, queueVars, m_syncMutex, m_modelPaths,
                   pathToLoad, newModel, loadResult, ctrlAndAudio>>
    /\ UNCHANGED outsideLoader

DoLoadFadeOutRemaining ==
    /\ wpc = "d_rem"
    /\ WriteFadeRemaining
    /\ wpc' = "d_gain"
    /\ UNCHANGED <<loaderVars, queueVars, m_syncMutex, m_modelPaths,
                   pathToLoad, newModel, loadResult, ctrlAndAudio, fadeOutSignalled>>
    /\ UNCHANGED outsideLoader

DoLoadFadeOutGain ==
    /\ wpc = "d_gain"
    /\ WriteFadeGain(FADE_SAMPLES)
    /\ wpc' = "d_slock"
    /\ UNCHANGED <<loaderVars, queueVars, m_syncMutex, m_modelPaths,
                   pathToLoad, newModel, loadResult, ctrlAndAudio, fadeOutSignalled>>
    /\ UNCHANGED outsideLoader

\* doLoadModel: unique_lock lock(m_syncMutex) (or the re-acquisition inside
\* wait_for after a notification), then the wait_for predicate
\* m_fadeState == Idle; true ends the wait and the end of the if-block
\* releases m_syncMutex
DoLoadLockSync ==
    /\ wpc \in {"d_slock", "d_woken"}
    /\ m_syncMutex = Free
    /\ IF m_fadeState = "Idle"
          THEN /\ wpc' = "d_clear"
               /\ UNCHANGED m_syncMutex
          ELSE /\ wpc' = "d_block"
               /\ m_syncMutex' = "worker"
    /\ UNCHANGED <<loaderVars, fadeVars, queueVars, m_modelPaths,
                   pathToLoad, newModel, loadResult, ctrlAndAudio, fadeOutSignalled>>
    /\ UNCHANGED outsideLoader

\* wait_for: release m_syncMutex and block on m_syncCV
DoLoadWaitBlock ==
    /\ wpc = "d_block"
    /\ m_syncMutex' = Free
    /\ wpc' = "d_sleep"
    /\ UNCHANGED <<loaderVars, fadeVars, queueVars, m_modelPaths,
                   pathToLoad, newModel, loadResult, ctrlAndAudio, fadeOutSignalled>>
    /\ UNCHANGED outsideLoader

\* wait_for: the 60 ms elapse
DoLoadWaitTimeout ==
    /\ wpc = "d_sleep"
    /\ wpc' = "d_timedout"
    /\ UNCHANGED <<loaderVars, fadeVars, queueVars, m_syncMutex, m_modelPaths,
                   pathToLoad, newModel, loadResult, ctrlAndAudio, fadeOutSignalled>>
    /\ UNCHANGED outsideLoader

\* wait_for after the timeout: re-acquire m_syncMutex, return the predicate's
\* value (ignored by doLoadModel), release at the end of the if-block
DoLoadWaitTimeoutRelock ==
    /\ wpc = "d_timedout"
    /\ m_syncMutex = Free
    /\ wpc' = "d_clear"
    /\ UNCHANGED <<loaderVars, fadeVars, queueVars, m_syncMutex, m_modelPaths,
                   pathToLoad, newModel, loadResult, ctrlAndAudio, fadeOutSignalled>>
    /\ UNCHANGED outsideLoader

\* the load going on without marking the slot not ready
DoLoadKeepReady ==
    UNCHANGED <<m_ready, m_model, m_modelPath, m_modelMutex>>

\* doLoadModel: m_ready.store(false) ("mark not ready during loading")
DoLoadStoreNotReady ==
    /\ m_ready' = FALSE
    /\ UNCHANGED <<m_model, m_modelPath, m_modelMutex>>

DoLoadClearReady ==
    /\ wpc = "d_clear"
    /\ DoLoadStoreNotReady
    /\ wpc' = "d_create"
    /\ UNCHANGED <<fadeVars, queueVars, m_syncMutex, m_modelPaths,
                   pathToLoad, newModel, loadResult, ctrlAndAudio, fadeOutSignalled>>
    /\ UNCHANGED outsideLoader

\* a model object that is not the installed one (the allocator returns an
\* address that is not in use)
FreshModel == CHOOSE id \in ModelIds : id # m_model

\* doLoadModel: NeuralModel::CreateFromFile(path) succeeds; SetMaxAudioBufferSize,
\* sample rate, normalization gain and the prewarm run touch only the new object
\* and atomics nobody in this model reads
\* (thread-local work), then lock_guard lock(m_modelMutex) around the swap
\* (DoLoadSkipModelLock: the swap entered without waiting for the mutex)
DoLoadSkipModelLock ==
    UNCHANGED <<m_ready, m_model, m_modelPath, m_modelMutex>>

DoLoadLockModel ==
    /\ m_modelMutex = Free
    /\ m_modelMutex' = "worker"
    /\ UNCHANGED <<m_ready, m_model, m_modelPath>>

DoLoadCreateOk ==
    /\ wpc = "d_create"
    /\ newModel' = FreshModel
    /\ DoLoadLockModel
    /\ wpc' = "d_swap"
    /\ UNCHANGED <<fadeVars, queueVars, m_syncMutex, m_modelPaths,
                   pathToLoad, loadResult, ctrlAndAudio, fadeOutSignalled>>
    /\ UNCHANGED outsideLoader

\* doLoadModel: CreateFromFile returns null or throws -> catch block:
\* m_ready.store(false)
DoLoadCreateFails ==
    /\ wpc = "d_create"
    /\ m_ready' = FALSE
    /\ wpc' = "d_fail_path"
    /\ UNCHANGED <<m_model, m_modelPath, m_modelMutex, fadeVars, queueVars, m_syncMutex,
                   m_modelPaths, pathToLoad, newModel, loadResult, ctrlAndAudio, fadeOutSignalled>>
    /\ UNCHANGED outsideLoader

\* catch: m_modelPath.clear(); back to the top of workerThread's loop
DoLoadFailClearPath ==
    /\ wpc = "d_fail_path"
    /\ m_modelPath' = NoPath
    /\ loadResult' = "failed"
    /\ wpc' = "w_lock"
    /\ UNCHANGED <<m_ready, m_model, m_modelMutex, fadeVars, queueVars, m_syncMutex,
                   m_modelPaths, pathToLoad, newModel, ctrlAndAudio, fadeOutSignalled>>
    /\ UNCHANGED outsideLoader


\* doLoadModel: m_model = std::move(newModel) -- the previously installed
\* model is destroyed by the assignment; the end of the block unlocks
DoLoadSwap ==
    /\ wpc = "d_swap"
    /\ m_model' = newModel
    /\ newModel' = NullModel
    /\ m_modelMutex' = Free
    /\ wpc' = "d_path"
    /\ UNCHANGED <<m_ready, m_modelPath, fadeVars, queueVars, m_syncMutex, m_modelPaths,
                   pathToLoad, loadResult, ctrlAndAudio, fadeOutSignalled>>
    /\ UNCHANGED outsideLoader

\* the installed path left as it was
DoLoadForgetPath ==
    UNCHANGED <<m_ready, m_model, m_modelPath, m_modelMutex>>

\* doLoadModel: m_modelPath = path
DoLoadStorePath ==
    /\ m_modelPath' = pathToLoad
    /\ UNCHANGED <<m_ready, m_model, m_modelMutex>>

DoLoadSetPath ==
    /\ wpc = "d_path"
    /\ DoLoadStorePath
    /\ wpc' = "d_fi_fs"
    /\ UNCHANGED <<fadeVars, queueVars, m_syncMutex, m_modelPaths,
                   pathToLoad, newModel, loadResult, ctrlAndAudio, fadeOutSignalled>>
    /\ UNCHANGED outsideLoader

\* doLoadModel: startFadeIn(), one member write per step
DoLoadFadeInState ==
    /\ wpc = "d_fi_fs"
    /\ WriteFadeState("FadingIn")
    /\ wpc' = "d_fi_rem"
    /\ UNCHANGED <<loaderVars, queueVars, m_syncMutex, m_modelPaths,
                   pathToLoad, newModel, loadResult, ctrlAndAudio, fadeOutSignalled>>
    /\ UNCHANGED outsideLoader

DoLoadFadeInRemaining ==
    /\ wpc = "d_fi_rem"
    /\ WriteFadeRemaining
    /\ wpc' = "d_fi_gain"
    /\ UNCHANGED <<loaderVars, queueVars, m_syncMutex, m_modelPaths,
                   pathToLoad, newModel, loadResult, ctrlAndAudio, fadeOutSignalled>>
    /\ UNCHANGED outsideLoader

DoLoadFadeInGain ==
    /\ wpc = "d_fi_gain"
    /\ WriteFadeGain(0)
    /\ wpc' = "d_setready"
    /\ UNCHANGED <<loaderVars, queueVars, m_syncMutex, m_modelPaths,
                   pathToLoad, newModel, loadResult, ctrlAndAudio, fadeOutSignalled>>
    /\ UNCHANGED outsideLoader

\* doLoadModel: m_ready.store(true); back to the top of workerThread's loop
DoLoadSetReady ==
    /\ wpc = "d_setready"
    /\ m_ready' = TRUE
    /\ loadResult' = "ok"
    /\ wpc' = "w_lock"
    /\ UNCHANGED <<m_model, m_modelPath, m_modelMutex, fadeVars, queueVars, m_syncMutex,
                   m_modelPaths, pathToLoad, newModel, ctrlAndAudio, fadeOutSignalled>>
    /\ UNCHANGED outsideLoader

Worker ==
    \/ WorkerWait
    \/ WorkerTakePath
    \/ WorkerClearRequest
    \/ DoLoadCheckReady
    \/ DoLoadFadeOutState
    \/ DoLoadFadeOutRemaining
    \/ DoLoadFadeOutGain
    \/ DoLoadLockSync
    \/ DoLoadWaitBlock
    \/ DoLoadWaitTimeout
    \/ DoLoadWaitTimeoutRelock
    \/ DoLoadClearReady
    \/ DoLoadCreateOk
    \/ DoLoadCreateFails
    \/ DoLoadFailClearPath
    \/ DoLoadSwap
    \/ DoLoadSetPath
    \/ DoLoadFadeInState
    \/ DoLoadFadeInRemaining
    \/ DoLoadFadeInGain
    \/ DoLoadSetReady

(***************************************************************************)
(* Audio thread: Engine::processStereo's model stage, ModelLoader::process *)
(* and ModelLoader::applyFade.                                             *)
(***************************************************************************)
workerAndCtrl == <<workerVars, ctrlVars>>

\* the audio callback returns from the model stage: its locals are dead
AudioReturn ==
    /\ apc' = "a_idle"
    /\ numSamples' = 0
    /\ ai' = 0
    /\ aReady' = FALSE

\* applyFade: ++i of the sample loop, or the end of the loop
AdvanceSample ==
    IF ai + 1 < numSamples
       THEN /\ apc' = "a_loop"
            /\ ai' = ai + 1
            /\ UNCHANGED <<numSamples, aReady>>
       ELSE AudioReturn

\* Engine::processStereo: the model stage runs only if the slot isReady();
\* otherwise the block bypasses the slot.  The block length numSamples is an
\* input of the callback that this path first consults in the loop of
\* applyFade; it is drawn there.
EngineModelStage ==
    /\ apc = "a_idle"
    /\ m_ready
    /\ apc' = "a_ready"
    /\ UNCHANGED <<loaderVars, fadeVars, queueVars, m_syncMutex, m_modelPaths,
                   workerAndCtrl, numSamples, ai, aReady, aModel, fadeOutSignalled>>
    /\ UNCHANGED outsideLoader

\* ModelLoader::process: if (!m_ready.load()) { memcpy; return; }
ProcessReadReady ==
    IF m_ready
       THEN /\ aReady' = TRUE
            /\ apc' = "a_lock"
            /\ UNCHANGED <<numSamples, ai>>
       ELSE AudioReturn

ProcessCheckReady ==
    /\ apc = "a_ready"
    /\ ProcessReadReady
    /\ UNCHANGED <<loaderVars, fadeVars, queueVars, m_syncMutex, m_modelPaths,
                   workerAndCtrl, aModel, fadeOutSignalled>>
    /\ UNCHANGED outsideLoader

\* ModelLoader::process: lock_guard lock(m_modelMutex); if (m_model) start
\* m_model->Process(...), else memcpy, unlock and return
ProcessLockModel ==
    /\ apc = "a_lock"
    /\ m_modelMutex = Free
    /\ IF m_model # NullModel
          THEN /\ m_modelMutex' = "audio"
               /\ aModel' = m_model
               /\ apc' = "a_invoke"
               /\ UNCHANGED <<numSamples, ai, aReady>>
          ELSE /\ UNCHANGED <<m_modelMutex, aModel>>
               /\ AudioReturn
    /\ UNCHANGED <<m_ready, m_model, m_modelPath, fadeVars, queueVars, m_syncMutex,
                   m_modelPaths, workerAndCtrl, fadeOutSignalled>>
    /\ UNCHANGED outsideLoader

\* ModelLoader::process: m_model->Process returns, the block ends and unlocks
\* m_modelMutex; normalization scales by an atomic gain; applyFade is entered
ProcessInvokeDone ==
    /\ apc = "a_invoke"
    /\ m_modelMutex' = Free
    /\ aModel' = NullModel
    /\ apc' = "a_fade"
    /\ UNCHANGED <<m_ready, m_model, m_modelPath, fadeVars, queueVars, m_syncMutex,
                   m_modelPaths, workerAndCtrl, numSamples, ai, aReady, fadeOutSignalled>>
    /\ UNCHANGED outsideLoader

\* applyFade(buffer, n): if (m_fadeState == Idle) return -- the block is left
\* unscaled; otherwise the loop over the n samples starts with i = 0
ApplyFadeEnter(n) ==
    /\ apc = "a_fade"
    /\ IF m_fadeState = "Idle"
          THEN AudioReturn
          ELSE /\ apc' = "a_loop"
               /\ numSamples' = n
               /\ ai' = 0
               /\ UNCHANGED aReady
    /\ UNCHANGED <<loaderVars, fadeVars, queueVars, m_syncMutex, m_modelPaths,
                   workerAndCtrl, aModel, fadeOutSignalled>>
    /\ UNCHANGED outsideLoader

\* applyFade: the gain the loop body computes for the current sample
\* (units of 1/FADE_SAMPLES); with the state Idle no branch assigns m_fadeGain
RampGain ==
    IF m_fadeState = "FadingOut" THEN m_fadeSamplesRemaining
    ELSE IF m_fadeState = "FadingIn" THEN FADE_SAMPLES - m_fadeSamplesRemaining
    ELSE m_fadeGain

\* applyFade: one iteration of the sample loop up to the test
\* m_fadeSamplesRemaining == 0: if (m_fadeSamplesRemaining > 0) { m_fadeGain =
\* ...; buffer[i] *= m_fadeGain; m_fadeSamplesRemaining--; }, else the sample
\* is left unscaled
ApplyFadeSample ==
    /\ apc = "a_loop"
    /\ IF m_fadeSamplesRemaining > 0
          THEN /\ m_fadeGain' = RampGain
               /\ m_fadeSamplesRemaining' = m_fadeSamplesRemaining - 1
               /\ IF m_fadeSamplesRemaining - 1 = 0
                     THEN /\ apc' = "a_done"
                          /\ UNCHANGED <<numSamples, ai, aReady>>
                     ELSE AdvanceSample
          ELSE /\ UNCHANGED <<m_fadeGain, m_fadeSamplesRemaining>>
               /\ AdvanceSample
    /\ UNCHANGED <<loaderVars, m_fadeState, queueVars, m_syncMutex, m_modelPaths,
                   workerAndCtrl, aModel, fadeOutSignalled>>
    /\ UNCHANGED outsideLoader

\* applyFade, fade complete: FadingOut -> m_fadeGain = 0 and
\* m_syncCV.notify_all(); FadingIn -> m_fadeGain = 1
ApplyFadeComplete ==
    /\ apc = "a_done"
    /\ IF m_fadeState = "FadingOut"
          THEN /\ m_fadeGain' = 0
               /\ wpc' = NotifySyncWorker(wpc)
               /\ cpc' = NotifySyncCtrl(cpc)
               /\ fadeOutSignalled' = TRUE
          ELSE /\ m_fadeGain' = IF m_fadeState = "FadingIn" THEN FADE_SAMPLES ELSE m_fadeGain
               /\ UNCHANGED <<wpc, cpc, fadeOutSignalled>>
    /\ apc' = "a_setidle"
    /\ UNCHANGED <<loaderVars, m_fadeState, m_fadeSamplesRemaining, queueVars,
                   m_syncMutex, m_modelPaths, pathToLoad, newModel, loadResult,
                   cOp, cArg, opsIssued, numSamples, ai, aReady, aModel>>
    /\ UNCHANGED outsideLoader

\* applyFade: m_fadeState = FadeState::Idle, after the notification
ApplyFadeSetIdle ==
    /\ apc = "a_setidle"
    /\ m_fadeState' = "Idle"
    /\ AdvanceSample
    /\ UNCHANGED <<loaderVars, m_fadeSamplesRemaining, m_fadeGain, queueVars,
                   m_syncMutex, m_modelPaths, workerAndCtrl, aModel, fadeOutSignalled>>
    /\ UNCHANGED outsideLoader

Audio ==
    \/ EngineModelStage
    \/ ProcessCheckReady
    \/ ProcessLockModel
    \/ ProcessInvokeDone
    \/ \E n \in 1..MaxBlock : ApplyFadeEnter(n)
    \/ ApplyFadeSample
    \/ ApplyFadeComplete
    \/ ApplyFadeSetIdle

Next == Control \/ Worker \/ Audio

allVars == <<vars, recVars, trackVars, engVars, laterVars>>

\* bands of calculateLowShelf / calculatePeaking: the coefficient set is a
\* function of the band's gain in dB
LowShelf(gainDB) == <<"lowshelf", gainDB>>
Peaking(gainDB) == <<"peaking", gainDB>>

\* ThreeBandEQ after construction: ThreeBandEQ.h:16-21, 205-217
EqInit ==
    /\ m_enabled = FALSE
    /\ m_bass = 0
    /\ m_mid = 0
    /\ m_coeffsDirty = TRUE
    /\ m_bassCoeffs = LowShelf(0)
    /\ m_midCoeffs = Peaking(0)
    /\ qpc = "q_idle"
    /\ spc = "s_idle"
    /\ eqOps = 0

\* ModelLoader after construction: the worker is started
\* (ModelLoader.cpp:20-21)
StopInit ==
    /\ m_workerRunning = TRUE
    /\ kpc = "k_loop"
    /\ xpc = "x_idle"
    /\ stopOps = 0

\* main() before backend.init: JackBackend.h:164-173, and the JACK server
\* up or down
JackInit ==
    /\ m_status = "Disconnected"
    /\ m_running = FALSE
    /\ m_shutdownCalled = FALSE
    /\ m_client = FALSE
    /\ mpc = "m_init"
    /\ jackConnected = FALSE
    /\ elapsed = 0
    /\ serverUp \in BOOLEAN

\* a JSON object: a function from its keys to their values; the empty one
EmptyDoc == [k \in {} |-> 0]

\* doc[key] = value
Put(doc, key, value) ==
    [k \in DOMAIN doc \cup {key} |-> IF k = key THEN value ELSE doc[k]]

\* doc.erase(key)
Erase(doc, key) == [k \in DOMAIN doc \ {key} |-> doc[k]]

\* a message that is not JSON
Garbage_Message ==
    [kind |-> "garbage", action |-> "", slot |-> 0, slotIsNumber |-> TRUE,
     flag |-> FALSE, path |-> NoPath]

\* Engine.h:544-546, 587; no runtime document has been written (load()
\* then yields the empty object); nothing handled yet
IpcInit ==
    /\ m_activeSlot = 0
    /\ m_activeSlotL = 0
    /\ m_activeSlotR = 0
    /\ m_bypassModel = FALSE
    /\ runtimeFile = [complete |-> TRUE, doc |-> EmptyDoc]
    /\ slotState = [slot \in {0, 1} |-> "empty"]
    /\ hpc = "h_idle"
    /\ request = Garbage_Message
    /\ calls = <<>>
    /\ response = EmptyDoc
    /\ ipcOps = 0

\* the delay of the feedback lines for a room size: delayMs * 0.001 *
\* sampleRate with delayMs = 20 + size * 180, scaled to 1 + size samples
DelayFor(size) == 1 + size

\* Reverb after construction: the member initialisers of Reverb.h:122-130
\* (room size and wet scaled to 0), then reconfigure()
ReverbInit ==
    /\ reverbEnabled = FALSE
    /\ m_roomSize = 0
    /\ m_wet = 0
    /\ wet = 0
    /\ delaySamples = DelayFor(0)
    /\ delayLength = DelayFor(0) + 1
    /\ vpc = "v_idle"
    /\ vI = 0
    /\ vNum = 0
    /\ vLast = <<>>
    /\ reverbBlocks = 0
    /\ gpc = "g_idle"
    /\ reverbOps = 0

\* the engine's chain cells after construction (Engine.h:536, 579-599), no
\* block processed
ChainInit ==
    /\ m_stereoMode = "LeftMono2Stereo"
    /\ m_bypassModelL = FALSE
    /\ m_bypassModelR = TRUE
    /\ m_noiseGateEnabledR = FALSE
    /\ m_inputGainLinearR = UnityGain
    /\ m_currentInputGainR = UnityGain
    /\ rightBlocks = 0
    /\ stagesL = <<>>
    /\ stagesR = <<>>
    /\ chainOps = 0
    /\ chainBlocks = 0

\* no runtime file has been written
CfgInit ==
    /\ configFile = [kind |-> "missing", doc |-> EmptyDoc, readable |-> TRUE]
    /\ cfgLast = [group |-> "none", result |-> "none"]
    /\ cfgOps = 0

LaterInit == EqInit /\ StopInit /\ JackInit /\ IpcInit /\ ReverbInit /\ ChainInit /\ CfgInit

AllInit == Init /\ RecInit /\ TrackInit /\ EngInit /\ LaterInit

Spec == AllInit /\ [][Next]_allVars


(***************************************************************************)
(* Properties of the model slot.                                           *)
(***************************************************************************)
InApplyFade == apc \in {"a_fade", "a_loop", "a_done", "a_setidle"}

\* the worker has nothing to do: it sleeps on m_workerCV and no request is set
WorkerIdle == wpc = "w_sleep" /\ ~m_loadRequested

\* C1: the audio thread invokes the installed model only after it has read
\* ready == true, and the object it is invoking stays the installed model
\* (it is neither destroyed nor replaced) for as long as the invocation lasts.
C1_InvokeOnlyReadyAndAlive ==
    apc = "a_invoke" => /\ aReady
                        /\ aModel # NullModel
                        /\ m_model = aModel

\* an invocation is in progress while the worker has cleared ready and is about
\* to install a new model over the one being invoked
C1_Witness ==
    /\ apc = "a_invoke"
    /\ wpc = "d_create"
    /\ ~m_ready

\* C2 (as stated): a model is destroyed only after ready has been stored
\* false and the requested fade-out has run to completion; a new model is
\* installed only while ready is false.
C2_DestroyAfterNotReadyAndFade ==
    [][ /\ (m_model # NullModel /\ m_model' # m_model)
            => (~m_ready /\ fadeOutSignalled)
        /\ (m_model' # NullModel /\ m_model' # m_model) => ~m_ready ]_vars

\* C2 (amended): a load destroys the previous model and installs the new one
\* only while ready is false and holding the model mutex, whether the fade-out
\* wait ended by completion or by its timeout; an unload destroys the model
\* holding the model mutex, after its fade-out wait ended, possibly while ready
\* is still true.
C2_DestroyInstallOrder ==
    [][ m_model' # m_model =>
          IF m_model' # NullModel
             THEN wpc = "d_swap" /\ m_modelMutex = "worker" /\ ~m_ready
             ELSE cpc = "u_reset" /\ m_modelMutex = "control" ]_vars

\* an unload is about to destroy the installed model while ready is still true
\* and the fade-out it requested has not completed (its wait timed out)
C2_Witness ==
    /\ cpc = "u_reset"
    /\ m_model # NullModel
    /\ m_ready
    /\ m_fadeState = "FadingOut"

\* C3: the gain applied to the slot's output follows the fade ramp without a
\* jump: whenever applyFade leaves samples unscaled (applied gain 1: the early
\* return of a whole block, or a sample of the loop once no fade samples
\* remain) the current fade gain is 1 -- in particular a sample is never passed
\* at gain 1 between the end of a fade-out (gain 0) and the clearing of ready.
C3_GainRampContinuous ==
    [][ ( \/ (apc = "a_fade" /\ apc' = "a_idle")
          \/ (apc = "a_loop" /\ m_fadeSamplesRemaining = 0 /\ <<apc, ai>>' # <<apc, ai>>) )
        => m_fadeGain = FADE_SAMPLES ]_vars

\* C4: when the last request was a load, the call has returned, the worker has
\* completed it successfully and is idle, the slot is ready and both the
\* loader's and the engine's path are the requested one.
C4_CompletedLoadInstalled ==
    (cpc = "c_idle" /\ cOp = "load" /\ WorkerIdle /\ loadResult = "ok")
        => (m_ready /\ m_modelPath = cArg /\ m_modelPaths = cArg)

\* the third request, a load, has completed on a slot that had a model before
C4_Witness ==
    /\ cpc = "c_idle" /\ cOp = "load" /\ WorkerIdle /\ loadResult = "ok"
    /\ opsIssued >= 3
    /\ m_ready /\ m_modelPath = cArg

\* C5: once unloadModel has returned and no load was requested after it, the
\* slot is not ready and the engine reports an empty path.
C5_UnloadedStaysUnloaded ==
    (cpc = "c_idle" /\ cOp = "unload") => (~m_ready /\ m_modelPaths = NoPath)

\* C6: requests collapse to the most recent one and none is lost: the pending
\* path is the path of the latest request, the worker never sleeps on a set
\* request flag unless the notification is on its way, and when it is idle the
\* load it executed last was for the pending (most recently requested) path.
C6_LatestRequestExecuted ==
    /\ (cOp = "load" => m_pendingModelPath = cArg)
    /\ (wpc = "w_sleep" /\ m_loadRequested) => cpc = "l_notify"
    /\ WorkerIdle => pathToLoad = m_pendingModelPath

\* a request for another path is pending while the worker is loading
C6_Witness ==
    /\ m_loadRequested
    /\ wpc = "d_create"
    /\ pathToLoad # m_pendingModelPath
    /\ cpc = "c_idle"

\* C7: after a load whose model construction failed, the slot is not ready and
\* both the loader's path and the engine's path for the slot are empty.
C7_FailedLoadClearsPaths ==
    (cpc = "c_idle" /\ cOp = "load" /\ WorkerIdle /\ loadResult = "failed")
        => (~m_ready /\ m_modelPath = NoPath /\ m_modelPaths = NoPath)

\* C8: a thread waiting on m_syncCV for the fade-out is woken by the audio
\* thread's completion report: it is never left asleep once the fade state is
\* back to Idle (from where only the timeout ends the wait).
C8_WaiterWokenByCompletion ==
    ~ ((wpc = "d_sleep" \/ cpc = "u_sleep") /\ fadeOutSignalled /\ m_fadeState = "Idle")

\* C9: while the audio thread is inside applyFade, no other thread writes
\* m_fadeState, m_fadeSamplesRemaining or m_fadeGain.
C9_FadeVarsAudioPrivate ==
    [][ (InApplyFade /\ <<apc, ai>>' = <<apc, ai>>) => UNCHANGED fadeVars ]_vars

\* C10: the audio thread is never blocked on a mutex held by another thread.
C10_AudioNeverBlocked ==
    ~ (apc = "a_lock" /\ m_modelMutex # Free)


(***************************************************************************)
(* Part 2: AudioRecorder.  Positions and flags are std::atomic, one access *)
(* per step; the ring slots are plain floats, one stereo frame per step in *)
(* pushAudioFrame and one sample per step in the writer's copy loop.       *)
(***************************************************************************)
\* std::terminate has not been called and the writer has not crashed
RecorderRunning == rpc # "r_terminated" /\ tpc # "t_crashed"

\* pushAudioFrame: free slots seen from (writePos, readPos), one kept empty
PushAvailable(writePos, readPos) ==
    IF readPos <= writePos THEN RING_BUFFER_SIZE - writePos + readPos - 1
                           ELSE readPos - writePos - 1

\* writerThreadFunc: samples to read seen from (readPos, writePos)
ReadAvailable(readPos, writePos) ==
    IF writePos >= readPos THEN writePos - readPos
                           ELSE RING_BUFFER_SIZE - readPos + writePos

\* the k slots starting at pos, with wrap-around
SlotsFrom(pos, k) == {(pos + j) % RING_BUFFER_SIZE : j \in 0..(k - 1)}

\* WAVWriter::write(batch, numFrames) with m_numChannels = 2: numFrames * 2
\* samples of sizeof(int16_t) bytes go to the file and are added to m_dataSize
WavWrite(numFrames) ==
    /\ pcmBytes' = IF wavOpen THEN pcmBytes + numFrames * 2 * BytesPerSample ELSE pcmBytes
    /\ m_dataSize' = IF wavOpen THEN m_dataSize + numFrames * 2 * BytesPerSample ELSE m_dataSize
    /\ UNCHANGED <<wavOpen, hdrDataLen, hdrChunkSize>>

(* ---- control thread: startRecording / stopRecording ---- *)
\* startRecording: if (m_recording.load()) return ""; else the file name and
\* sample rate are set up (members only the writer thread reads, later)
StartRecording ==
    /\ RecorderRunning
    /\ rpc = "r_idle"
    /\ recOps < MaxOps
    /\ recOps' = recOps + 1
    /\ IF m_recording
          THEN rLast' = "start_refused" /\ rpc' = "r_idle"
          ELSE rLast' = "start" /\ rpc' = "s_wpos"
    /\ UNCHANGED <<ringVars, pushVars, writerVars, wavVars, outsideRecorder>>

\* startRecording, "reset ring buffer": m_writePos.store(0); the reset
\* discards whatever the ring held
StartResetWritePos ==
    /\ rpc = "s_wpos"
    /\ m_writePos' = 0
    /\ unreadSlots' = {}
    /\ rpc' = "s_rpos"
    /\ UNCHANGED <<m_recording, m_readPos, m_droppedFrames, m_writerThread,
                   rLast, recOps, pushVars, writerVars, wavVars, outsideRecorder>>

\* startRecording: m_readPos.store(0)
StartResetReadPos ==
    /\ rpc = "s_rpos"
    /\ m_readPos' = 0
    /\ rpc' = "s_drop"
    /\ UNCHANGED <<m_recording, m_writePos, m_droppedFrames, m_writerThread, unreadSlots,
                   rLast, recOps, pushVars, writerVars, wavVars, outsideRecorder>>

\* startRecording: m_droppedFrames.store(0)
StartResetDropped ==
    /\ rpc = "s_drop"
    /\ m_droppedFrames' = 0
    /\ rpc' = "s_go"
    /\ UNCHANGED <<m_recording, m_writePos, m_readPos, m_writerThread, unreadSlots,
                   rLast, recOps, pushVars, writerVars, wavVars, outsideRecorder>>

\* startRecording: m_recording.store(true); m_writerThread = make_unique<thread>.
\* Assigning over a std::thread that was never joined (the writer of a
\* recording whose file could not be opened) destroys a joinable thread:
\* std::terminate.
StartSpawnWriter ==
    /\ rpc = "s_go"
    /\ m_recording' = TRUE
    /\ IF m_writerThread = "none"
          THEN /\ m_writerThread' = "running"
               /\ tpc' = "t_open"
               /\ rpc' = "r_idle"
          ELSE /\ rpc' = "r_terminated"
               /\ UNCHANGED <<m_writerThread, tpc>>
    /\ UNCHANGED <<m_writePos, m_readPos, m_droppedFrames, unreadSlots, rLast, recOps,
                   pushVars, tReadPos, toRead, tI, wavVars, outsideRecorder>>

\* stopRecording: if (!m_recording.load()) return; m_recording.store(false)
StopRecording ==
    /\ RecorderRunning
    /\ rpc = "r_idle"
    /\ recOps < MaxOps
    /\ recOps' = recOps + 1
    /\ IF m_recording
          THEN rLast' = "stop" /\ rpc' = "x_join" /\ m_recording' = FALSE
          ELSE rLast' = "stop_noop" /\ rpc' = "r_idle" /\ UNCHANGED m_recording
    /\ UNCHANGED <<m_writePos, m_readPos, m_droppedFrames, m_writerThread, unreadSlots,
                   pushVars, writerVars, wavVars, outsideRecorder>>

\* stopRecording: m_writerThread->join(); m_writerThread.reset(); the path is cleared
StopJoinWriter ==
    /\ RecorderRunning
    /\ rpc = "x_join"
    /\ m_writerThread # "running"
    /\ m_writerThread' = "none"
    /\ rpc' = "r_idle"
    /\ UNCHANGED <<m_recording, m_writePos, m_readPos, m_droppedFrames, unreadSlots,
                   rLast, recOps, pushVars, writerVars, wavVars, outsideRecorder>>

(* ---- audio thread: pushAudioFrame ---- *)
\* Engine::processStereo pushes a block only if isRecording(); pushAudioFrame
\* tests m_recording again and returns at once when it is false
PushAudioFrame(n) ==
    /\ RecorderRunning
    /\ ppc = "p_idle"
    /\ pushes < MaxPushes
    /\ m_recording
    /\ pushes' = pushes + 1
    /\ pNum' = n
    /\ ppc' = "p_wpos"
    /\ UNCHANGED <<ringVars, recCtlVars, pWritePos, pReadPos, pI, writerVars, wavVars,
                   outsideRecorder>>

\* pushAudioFrame: size_t writePos = m_writePos.load()
PushLoadWritePos ==
    /\ RecorderRunning
    /\ ppc = "p_wpos"
    /\ pWritePos' = m_writePos
    /\ ppc' = "p_rpos"
    /\ UNCHANGED <<ringVars, recCtlVars, pReadPos, pNum, pI, pushes, writerVars, wavVars,
                   outsideRecorder>>

\* pushAudioFrame: the block fits: available >= required (= numSamples * 2)
\* the test with every block taken as not fitting
PushNeverFits(writePos, readPos, n) == FALSE

\* the test with room for one frame taken as room for the block
PushFitsOneFrame(writePos, readPos, n) == PushAvailable(writePos, readPos) >= 2

PushFits(writePos, readPos, n) == PushAvailable(writePos, readPos) >= n * 2

\* pushAudioFrame: size_t readPos = m_readPos.load(); available, required
PushLoadReadPos ==
    /\ RecorderRunning
    /\ ppc = "p_rpos"
    /\ pReadPos' = m_readPos
    /\ pI' = 0
    /\ ppc' = IF PushFits(pWritePos, m_readPos, pNum) THEN "p_write" ELSE "p_drop"
    /\ UNCHANGED <<ringVars, recCtlVars, pWritePos, pNum, pushes, writerVars, wavVars,
                   outsideRecorder>>

\* pushAudioFrame: m_droppedFrames.fetch_add(numSamples); return
PushDrop ==
    /\ RecorderRunning
    /\ ppc = "p_drop"
    /\ m_droppedFrames' = m_droppedFrames + pNum
    /\ ppc' = "p_idle"
    /\ UNCHANGED <<m_recording, m_writePos, m_readPos, m_writerThread, unreadSlots,
                   recCtlVars, pWritePos, pReadPos, pNum, pI, pushes, writerVars, wavVars,
                   outsideRecorder>>

\* pushAudioFrame: one iteration of the loop: m_ringBuffer[writePos] = left[i],
\* m_ringBuffer[writePos + 1] = right[i], writePos advanced twice modulo the size
PushWriteFrame ==
    /\ RecorderRunning
    /\ ppc = "p_write"
    /\ unreadSlots' = unreadSlots \cup SlotsFrom(pWritePos, 2)
    /\ pWritePos' = (pWritePos + 2) % RING_BUFFER_SIZE
    /\ pI' = pI + 1
    /\ ppc' = IF pI + 1 < pNum THEN "p_write" ELSE "p_store"
    /\ UNCHANGED <<m_recording, m_writePos, m_readPos, m_droppedFrames, m_writerThread,
                   recCtlVars, pReadPos, pNum, pushes, writerVars, wavVars, outsideRecorder>>

\* pushAudioFrame: m_writePos.store(writePos)
PushStoreWritePos ==
    /\ RecorderRunning
    /\ ppc = "p_store"
    /\ m_writePos' = pWritePos
    /\ ppc' = "p_idle"
    /\ UNCHANGED <<m_recording, m_readPos, m_droppedFrames, m_writerThread, unreadSlots,
                   recCtlVars, pWritePos, pReadPos, pNum, pI, pushes, writerVars, wavVars,
                   outsideRecorder>>

(* ---- writer thread: writerThreadFunc with its WAVWriter ---- *)
\* wavWriter.open(): the file is created, m_dataSize = 0 and a header with
\* the lengths 36 + 0 and 0 is written
WriterOpenOk ==
    /\ RecorderRunning
    /\ tpc = "t_open"
    /\ wavOpen' = TRUE
    /\ m_dataSize' = 0
    /\ pcmBytes' = 0
    /\ hdrDataLen' = 0
    /\ hdrChunkSize' = 36
    /\ tpc' = "t_loop"
    /\ UNCHANGED <<ringVars, recCtlVars, pushVars, tReadPos, toRead, tI, outsideRecorder>>

\* wavWriter.open() fails: m_recording.store(false); return -- the thread ends
\* without anybody joining it
WriterOpenFails ==
    /\ RecorderRunning
    /\ tpc = "t_open"
    /\ m_recording' = FALSE
    /\ m_writerThread' = "finished"
    /\ tpc' = "t_failed"
    /\ UNCHANGED <<m_writePos, m_readPos, m_droppedFrames, unreadSlots, recCtlVars,
                   pushVars, tReadPos, toRead, tI, wavVars, outsideRecorder>>

\* while (m_recording.load()): load both positions (m_readPos is stored by no
\* other thread while the writer runs), available; nothing available: sleep
\* 10 ms and test again
WriterPoll ==
    /\ RecorderRunning
    /\ tpc = "t_loop"
    /\ IF ~m_recording
          THEN /\ tpc' = "t_flush"
               /\ UNCHANGED <<tReadPos, toRead, tI>>
          ELSE /\ tReadPos' = m_readPos
               /\ tI' = 0
               /\ toRead' = IF ReadAvailable(m_readPos, m_writePos) < BATCH_SIZE
                               THEN ReadAvailable(m_readPos, m_writePos) ELSE BATCH_SIZE
               /\ tpc' = IF ReadAvailable(m_readPos, m_writePos) = 0 THEN "t_loop" ELSE "t_copy"
    /\ UNCHANGED <<ringVars, recCtlVars, pushVars, wavVars, outsideRecorder>>

\* batch[i] = m_ringBuffer[readPos]; readPos = (readPos + 1) % RING_BUFFER_SIZE
WriterCopySample ==
    /\ RecorderRunning
    /\ tpc = "t_copy"
    /\ unreadSlots' = unreadSlots \ {tReadPos}
    /\ tReadPos' = (tReadPos + 1) % RING_BUFFER_SIZE
    /\ tI' = tI + 1
    /\ tpc' = IF tI + 1 < toRead THEN "t_copy" ELSE "t_store"
    /\ UNCHANGED <<m_recording, m_writePos, m_readPos, m_droppedFrames, m_writerThread,
                   recCtlVars, pushVars, toRead, wavVars, outsideRecorder>>

\* m_readPos.store(readPos); wavWriter.write(batch, toRead / 2)
WriterStoreReadPos ==
    /\ RecorderRunning
    /\ tpc = "t_store"
    /\ m_readPos' = tReadPos
    /\ WavWrite(toRead \div 2)
    /\ tpc' = "t_loop"
    /\ UNCHANGED <<m_recording, m_writePos, m_droppedFrames, m_writerThread, unreadSlots,
                   recCtlVars, pushVars, tReadPos, toRead, tI, outsideRecorder>>

\* after the loop: remaining = ReadAvailable(readPos, writePos) samples are
\* copied into a batch[BATCH_SIZE] and written; m_readPos is not stored again
WriterFlush ==
    /\ RecorderRunning
    /\ tpc = "t_flush"
    /\ ReadAvailable(m_readPos, m_writePos) <= BATCH_SIZE
    /\ unreadSlots' = unreadSlots \ SlotsFrom(m_readPos, ReadAvailable(m_readPos, m_writePos))
    /\ WavWrite(ReadAvailable(m_readPos, m_writePos) \div 2)
    /\ tpc' = "t_close"
    /\ UNCHANGED <<m_recording, m_writePos, m_readPos, m_droppedFrames, m_writerThread,
                   recCtlVars, pushVars, tReadPos, toRead, tI, outsideRecorder>>

\* the same flush with remaining > BATCH_SIZE: the copy loop stores past the
\* end of batch[] (undefined behaviour).  The outcomes kept here: the stores hit
\* unused stack and the flush goes on as written; they hit the WAVWriter object
\* next to the array and m_dataSize holds an arbitrary value; the thread faults.
WriterFlushOverflow ==
    /\ RecorderRunning
    /\ tpc = "t_flush"
    /\ ReadAvailable(m_readPos, m_writePos) > BATCH_SIZE
    /\ unreadSlots' = unreadSlots \ SlotsFrom(m_readPos, ReadAvailable(m_readPos, m_writePos))
    /\ \/ /\ WavWrite(ReadAvailable(m_readPos, m_writePos) \div 2)
          /\ tpc' = "t_close"
       \/ /\ pcmBytes' = pcmBytes + ReadAvailable(m_readPos, m_writePos) * BytesPerSample
          /\ m_dataSize' \in {0, BytesPerSample}
          /\ UNCHANGED <<wavOpen, hdrDataLen, hdrChunkSize>>
          /\ tpc' = "t_close"
       \/ /\ UNCHANGED wavVars
          /\ tpc' = "t_crashed"
    /\ UNCHANGED <<m_recording, m_writePos, m_readPos, m_droppedFrames, m_writerThread,
                   recCtlVars, pushVars, tReadPos, toRead, tI, outsideRecorder>>

\* wavWriter.close(): seekp(0), writeHeader() with chunkSize = 36 + m_dataSize
\* and the data length m_dataSize, file closed, m_dataSize = 0; the thread ends
WriterClose ==
    /\ RecorderRunning
    /\ tpc = "t_close"
    /\ hdrDataLen' = (IF wavOpen THEN m_dataSize ELSE hdrDataLen)
    /\ hdrChunkSize' = (IF wavOpen THEN 36 + m_dataSize ELSE hdrChunkSize)
    /\ wavOpen' = FALSE
    /\ m_dataSize' = 0
    /\ UNCHANGED pcmBytes
    /\ m_writerThread' = "finished"
    /\ tpc' = "t_done"
    /\ UNCHANGED <<m_recording, m_writePos, m_readPos, m_droppedFrames, unreadSlots,
                   recCtlVars, pushVars, tReadPos, toRead, tI, outsideRecorder>>

RecNext ==
    \/ StartRecording
    \/ StartResetWritePos
    \/ StartResetReadPos
    \/ StartResetDropped
    \/ StartSpawnWriter
    \/ StopRecording
    \/ StopJoinWriter
    \/ \E n \in 1..MaxBlock : PushAudioFrame(n)
    \/ PushLoadWritePos
    \/ PushLoadReadPos
    \/ PushDrop
    \/ PushWriteFrame
    \/ PushStoreWritePos
    \/ WriterOpenOk
    \/ WriterOpenFails
    \/ WriterPoll
    \/ WriterCopySample
    \/ WriterStoreReadPos
    \/ WriterFlush
    \/ WriterFlushOverflow
    \/ WriterClose

RecSpec == AllInit /\ [][RecNext]_allVars


(***************************************************************************)
(* Properties of the recorder.                                             *)
(***************************************************************************)
\* the writer thread is between two samples of a copy
WriterCopying == tpc \in {"t_copy", "t_store"}

\* C11: the ring never holds more than RING_BUFFER_SIZE - 1 unread samples,
\* equal positions mean an empty ring (never a full one), and pushAudioFrame
\* never stores into a slot whose sample the writer thread has not read yet.
C11_RingCapacityNoOverwrite ==
    /\ Cardinality(unreadSlots) <= RING_BUFFER_SIZE - 1
    /\ (m_writePos = m_readPos /\ ppc = "p_idle" /\ ~WriterCopying /\ rpc # "s_rpos")
          => unreadSlots = {}
    /\ ppc = "p_write" => SlotsFrom(pWritePos, 2) \cap unreadSlots = {}

\* C12 (as stated): the dropped-frames counter never decreases, and it grows
\* only in a pushAudioFrame call that found fewer free slots than its block
\* needs.
C12_DroppedNeverDecreases ==
    [][ /\ m_droppedFrames' >= m_droppedFrames
        /\ m_droppedFrames' > m_droppedFrames
             => (ppc = "p_drop" /\ PushAvailable(pWritePos, pReadPos) < pNum * 2) ]_allVars

\* C12 (amended): the counter decreases only in startRecording's reset, which
\* sets it to 0; between two resets it never decreases, and it grows only in a
\* pushAudioFrame call that found fewer free slots than its block needs, by
\* the number of frames of that block.
C12_DroppedResetOnlyByStart ==
    [][ /\ m_droppedFrames' < m_droppedFrames
             => (rpc = "s_drop" /\ m_droppedFrames' = 0)
        /\ m_droppedFrames' > m_droppedFrames
             => /\ ppc = "p_drop"
                /\ PushAvailable(pWritePos, pReadPos) < pNum * 2
                /\ m_droppedFrames' = m_droppedFrames + pNum ]_allVars

\* a recording that dropped frames has been stopped and the next
\* startRecording is about to reset the counter
C12_Witness ==
    /\ m_droppedFrames > 0
    /\ rpc = "s_drop"

\* C13: the positions of the ring are stored by the audio thread (write) and
\* the writer thread (read) alone: the control thread never stores a position
\* while a pushAudioFrame call or the writer thread is in progress.
C13_PositionsOwnedByRingThreads ==
    rpc \in {"s_wpos", "s_rpos"} => (ppc = "p_idle" /\ m_writerThread # "running")

\* C14: once a stopRecording that found the recorder recording has returned,
\* the writer thread has ended, and if it had opened the file, the file is
\* closed and its header carries the data length pcmBytes and the RIFF length
\* pcmBytes + 36.
C14_HeaderMatchesBytesWritten ==
    (rpc = "r_idle" /\ rLast = "stop")
        => /\ m_writerThread = "none"
           /\ tpc \in {"t_done", "t_failed"}
           /\ tpc = "t_done" => /\ ~wavOpen
                                /\ hdrDataLen = pcmBytes
                                /\ hdrChunkSize = pcmBytes + 36


(***************************************************************************)
(* Part 3: BackingTrack.  A sample of the loaded file is written as its    *)
(* frame index; the volume factor is left out.  The transport cells are    *)
(* std::atomic, one access per step where the order matters; the vectors   *)
(* and totalFrames_ are plain members.                                     *)
(***************************************************************************)
\* the process has not crashed in fillBuffer
TrackRunning == fpc # "f_crashed"

\* numFrames zeros (memset)
Zeros(k) == [i \in 1..k |-> Silence]

ControlIdle == bpc = "b_idle" /\ trackOps < MaxTrackOps /\ TrackRunning

\* ---- control thread ----
\* loadFile: unload() first
LoadFile ==
    /\ ControlIdle
    /\ bpc' = "u_stop"
    /\ trackOps' = trackOps + 1
    /\ playSeq' = -1
    /\ UNCHANGED <<trackCells, fillVars, endReached>>
    /\ UNCHANGED outsideTrack

\* unload: stop()
UnloadStop ==
    /\ bpc = "u_stop" /\ TrackRunning
    /\ isPlaying_' = FALSE
    /\ playbackPosition_' = startFrame_
    /\ endReached' = FALSE
    /\ bpc' = "u_clear"
    /\ UNCHANGED <<audioDataLen, totalFrames_, loopEnabled_, startFrame_, stopFrame_,
                   trackOps, fillVars, playSeq>>
    /\ UNCHANGED outsideTrack

\* unload: the vectors are cleared, the cells reset
UnloadClear ==
    /\ bpc = "u_clear" /\ TrackRunning
    /\ audioDataLen' = 0
    /\ totalFrames_' = 0
    /\ playbackPosition_' = 0
    /\ startFrame_' = 0
    /\ stopFrame_' = 0
    /\ bpc' = "l_decode"
    /\ UNCHANGED <<isPlaying_, loopEnabled_, trackOps, fillVars, trackHist>>
    /\ UNCHANGED outsideTrack

\* loadWavFile / loadMp3File: the decoded file is assigned to the vectors
LoadAssign ==
    /\ bpc = "l_decode" /\ TrackRunning
    /\ audioDataLen' = TrackFrames
    /\ totalFrames_' = TrackFrames
    /\ playbackPosition_' = 0
    /\ startFrame_' = 0
    /\ stopFrame_' = 0
    /\ bpc' = "b_idle"
    /\ UNCHANGED <<isPlaying_, loopEnabled_, trackOps, fillVars, trackHist>>
    /\ UNCHANGED outsideTrack

\* the file cannot be opened or decoded: loadFile returns false
LoadFails ==
    /\ bpc = "l_decode" /\ TrackRunning
    /\ bpc' = "b_idle"
    /\ UNCHANGED <<trackCells, trackOps, fillVars, trackHist>>
    /\ UNCHANGED outsideTrack

\* play: playbackPosition_.store(startFrame_.load())
Play ==
    /\ ControlIdle
    /\ totalFrames_ > 0
    /\ playbackPosition_' = startFrame_
    /\ bpc' = "p_flag"
    /\ trackOps' = trackOps + 1
    /\ playSeq' = IF fpc = "f_idle" THEN 0 ELSE -1
    /\ UNCHANGED <<audioDataLen, totalFrames_, isPlaying_, loopEnabled_, startFrame_,
                   stopFrame_, fillVars, endReached>>
    /\ UNCHANGED outsideTrack

PlaySetPlaying ==
    /\ bpc = "p_flag" /\ TrackRunning
    /\ isPlaying_' = TRUE
    /\ bpc' = "b_idle"
    /\ endReached' = FALSE
    /\ UNCHANGED <<audioDataLen, totalFrames_, playbackPosition_, loopEnabled_,
                   startFrame_, stopFrame_, trackOps, fillVars, playSeq>>
    /\ UNCHANGED outsideTrack

\* stop: isPlaying_.store(false)
Stop ==
    /\ ControlIdle
    /\ isPlaying_' = FALSE
    /\ bpc' = "s_pos"
    /\ trackOps' = trackOps + 1
    /\ playSeq' = -1
    /\ endReached' = FALSE
    /\ UNCHANGED <<audioDataLen, totalFrames_, playbackPosition_, loopEnabled_,
                   startFrame_, stopFrame_, fillVars>>
    /\ UNCHANGED outsideTrack

StopResetPosition ==
    /\ bpc = "s_pos" /\ TrackRunning
    /\ playbackPosition_' = startFrame_
    /\ bpc' = "b_idle"
    /\ UNCHANGED <<audioDataLen, totalFrames_, isPlaying_, loopEnabled_, startFrame_,
                   stopFrame_, trackOps, fillVars, trackHist>>
    /\ UNCHANGED outsideTrack

Pause ==
    /\ ControlIdle
    /\ isPlaying_' = FALSE
    /\ trackOps' = trackOps + 1
    /\ playSeq' = -1
    /\ endReached' = FALSE
    /\ UNCHANGED <<audioDataLen, totalFrames_, playbackPosition_, loopEnabled_,
                   startFrame_, stopFrame_, bpc, fillVars>>
    /\ UNCHANGED outsideTrack

SetLoop(enabled) ==
    /\ ControlIdle
    /\ loopEnabled_' = enabled
    /\ trackOps' = trackOps + 1
    /\ playSeq' = -1
    /\ UNCHANGED <<audioDataLen, totalFrames_, playbackPosition_, isPlaying_,
                   startFrame_, stopFrame_, bpc, fillVars, endReached>>
    /\ UNCHANGED outsideTrack

\* setStartPosition: sampleRate_ > 0 exactly when a file is loaded; frame is
\* seconds * sampleRate_, clamped to the last frame
SetStartPosition(frame) ==
    /\ ControlIdle
    /\ totalFrames_ > 0
    /\ startFrame_' = IF frame >= totalFrames_ THEN totalFrames_ - 1 ELSE frame
    /\ trackOps' = trackOps + 1
    /\ playSeq' = -1
    /\ UNCHANGED <<audioDataLen, totalFrames_, playbackPosition_, isPlaying_,
                   loopEnabled_, stopFrame_, bpc, fillVars, endReached>>
    /\ UNCHANGED outsideTrack

\* setStopPosition: clamped to totalFrames_; 0 stands for the end of the file
SetStopPosition(frame) ==
    /\ ControlIdle
    /\ totalFrames_ > 0
    /\ stopFrame_' = IF frame > totalFrames_ THEN totalFrames_ ELSE frame
    /\ trackOps' = trackOps + 1
    /\ playSeq' = -1
    /\ UNCHANGED <<audioDataLen, totalFrames_, playbackPosition_, isPlaying_,
                   loopEnabled_, startFrame_, bpc, fillVars, endReached>>
    /\ UNCHANGED outsideTrack

\* ---- audio thread: fillBuffer ----
\* the call fillBuffer(outL, outR, n)
FillCall(n) ==
    /\ fpc = "f_idle"
    /\ fpc' = "f_check"
    /\ fNum' = n
    /\ fI' = 0
    /\ fOut' = <<>>
    /\ playSeq' = IF bpc = "p_flag" THEN -1 ELSE playSeq
    /\ UNCHANGED <<fPos, fLoop, fStart, fEnd, endReached>>

\* the audio thread calls fillBuffer
FillBuffer(n) ==
    /\ fills < MaxFills
    /\ FillCall(n)
    /\ fills' = fills + 1
    /\ UNCHANGED <<trackCells, trackCtl>>
    /\ UNCHANGED outsideTrack

\* if (!isPlaying_.load() || totalFrames_ == 0): silence
FillCheck ==
    /\ fpc = "f_check"
    /\ IF ~isPlaying_ \/ totalFrames_ = 0
         THEN fOut' = Zeros(fNum) /\ fpc' = "f_done"
         ELSE fOut' = fOut /\ fpc' = "f_params"
    /\ UNCHANGED <<fNum, fI, fPos, fLoop, fStart, fEnd, fills>>
    /\ UNCHANGED <<trackCells, trackCtl, playSeq, endReached>>
    /\ UNCHANGED outsideTrack

\* loop, startFrame, stopFrame, endFrame
EndFrame(stopFrame) ==
    IF stopFrame > 0 /\ stopFrame < totalFrames_ THEN stopFrame ELSE totalFrames_

FillLoadParams ==
    /\ fpc = "f_params"
    /\ fLoop' = loopEnabled_
    /\ fStart' = startFrame_
    /\ fEnd' = EndFrame(stopFrame_)
    /\ fpc' = "f_pos"
    /\ UNCHANGED <<fNum, fI, fPos, fOut, fills>>
    /\ UNCHANGED <<trackCells, trackCtl, trackHist>>
    /\ UNCHANGED outsideTrack

\* size_t pos = playbackPosition_.load()
FillLoadPos ==
    /\ fpc = "f_pos"
    /\ fPos' = playbackPosition_
    /\ fpc' = "f_loop"
    /\ UNCHANGED <<fNum, fI, fLoop, fStart, fEnd, fOut, fills>>
    /\ UNCHANGED <<trackCells, trackCtl, trackHist>>
    /\ UNCHANGED outsideTrack

\* the same test one frame late
EndOfTrackLate(pos, endFrame) == pos > endFrame

\* if (pos >= endFrame)
EndOfTrack(pos, endFrame) == pos >= endFrame

\* the same choice with a wrap to frame 0 instead of startFrame
FillIndexWrapToZero == IF EndOfTrack(fPos, fEnd) THEN 0 ELSE fPos

\* the frame the next iteration reads: pos, or startFrame after a wrap
FillIndex == IF EndOfTrack(fPos, fEnd) THEN fStart ELSE fPos

FillEmitting == fpc = "f_loop" /\ fI < fNum /\ (~EndOfTrack(fPos, fEnd) \/ fLoop)

\* one iteration: out[i] = audioData[pos] * vol; pos++
FillFrame ==
    /\ FillEmitting
    /\ FillIndex < audioDataLen
    /\ fOut' = Append(fOut, FillIndex)
    /\ fPos' = FillIndex + 1
    /\ fI' = fI + 1
    /\ playSeq' = IF playSeq >= 0 THEN playSeq + 1 ELSE playSeq
    /\ UNCHANGED <<fpc, fNum, fLoop, fStart, fEnd, fills>>
    /\ UNCHANGED <<trackCells, trackCtl, endReached>>
    /\ UNCHANGED outsideTrack

\* the same iteration after the vectors were cleared or replaced by a
\* shorter file: a read past the end of the vector (or of freed storage),
\* which yields the old sample, anything else, or a fault
FillFrameOutOfBounds ==
    /\ FillEmitting
    /\ FillIndex >= audioDataLen
    /\ \/ /\ \E sample \in {FillIndex, Garbage} : fOut' = Append(fOut, sample)
          /\ fPos' = FillIndex + 1
          /\ fI' = fI + 1
          /\ fpc' = fpc
       \/ /\ fpc' = "f_crashed"
          /\ UNCHANGED <<fOut, fPos, fI>>
    /\ playSeq' = -1
    /\ UNCHANGED <<fNum, fLoop, fStart, fEnd, fills>>
    /\ UNCHANGED <<trackCells, trackCtl, endReached>>
    /\ UNCHANGED outsideTrack

\* pos >= endFrame without loop: isPlaying_.store(false), silence for the rest
FillStop ==
    /\ fpc = "f_loop" /\ fI < fNum
    /\ EndOfTrack(fPos, fEnd) /\ ~fLoop
    /\ isPlaying_' = FALSE
    /\ fOut' = fOut \o Zeros(fNum - fI)
    /\ endReached' = TRUE
    /\ fpc' = "f_stoppos"
    /\ UNCHANGED <<fNum, fI, fPos, fLoop, fStart, fEnd, fills>>
    /\ UNCHANGED <<audioDataLen, totalFrames_, playbackPosition_, loopEnabled_,
                   startFrame_, stopFrame_, trackCtl, playSeq>>
    /\ UNCHANGED outsideTrack

\* playbackPosition_.store(startFrame); return
FillStopStorePos ==
    /\ fpc = "f_stoppos"
    /\ playbackPosition_' = fStart
    /\ fpc' = "f_done"
    /\ UNCHANGED <<fNum, fI, fPos, fLoop, fStart, fEnd, fOut, fills>>
    /\ UNCHANGED <<audioDataLen, totalFrames_, isPlaying_, loopEnabled_, startFrame_,
                   stopFrame_, trackCtl, trackHist>>
    /\ UNCHANGED outsideTrack

\* after the loop: playbackPosition_.store(pos)
FillStorePos ==
    /\ fpc = "f_loop" /\ fI = fNum
    /\ playbackPosition_' = fPos
    /\ fpc' = "f_done"
    /\ UNCHANGED <<fNum, fI, fPos, fLoop, fStart, fEnd, fOut, fills>>
    /\ UNCHANGED <<audioDataLen, totalFrames_, isPlaying_, loopEnabled_, startFrame_,
                   stopFrame_, trackCtl, trackHist>>
    /\ UNCHANGED outsideTrack

\* fillBuffer returns to the audio thread
FillReturn ==
    /\ fpc = "f_done"
    /\ fpc' = "f_idle"
    /\ UNCHANGED <<fNum, fI, fPos, fLoop, fStart, fEnd, fOut, fills>>
    /\ UNCHANGED <<trackCells, trackCtl, trackHist>>
    /\ UNCHANGED outsideTrack

TrackControl ==
    \/ LoadFile
    \/ UnloadStop
    \/ UnloadClear
    \/ LoadAssign
    \/ LoadFails
    \/ Play
    \/ PlaySetPlaying
    \/ Stop
    \/ StopResetPosition
    \/ Pause
    \/ \E enabled \in BOOLEAN : SetLoop(enabled)
    \/ \E frame \in PosInputs : SetStartPosition(frame)
    \/ \E frame \in PosInputs : SetStopPosition(frame)

FillSteps ==
    \/ FillCheck
    \/ FillLoadParams
    \/ FillLoadPos
    \/ FillFrame
    \/ FillFrameOutOfBounds
    \/ FillStop
    \/ FillStopStorePos
    \/ FillStorePos

TrackNext ==
    \/ TrackControl
    \/ \E n \in 1..MaxBlock : FillBuffer(n)
    \/ FillSteps
    \/ FillReturn

TrackSpec == AllInit /\ [][TrackNext]_allVars


(***************************************************************************)
(* Properties of the backing track.                                        *)
(***************************************************************************)
\* fillBuffer is past its isPlaying_ / totalFrames_ test and has not left
\* the loop that reads audioDataL_ / audioDataR_
FillReading == fpc \in {"f_params", "f_pos", "f_loop"}

\* C16: the audio vectors are never cleared, resized or reassigned by
\* loadFile / unload while the audio thread is inside fillBuffer reading
\* them: a load takes effect only after an in-progress fillBuffer finished.
C16_VectorsNotModifiedDuringFill ==
    [][audioDataLen' # audioDataLen => ~FillReading]_allVars

\* loop enabled, 0 <= start < stop <= totalFrames
LoopRange == loopEnabled_ /\ startFrame_ < stopFrame_ /\ stopFrame_ <= totalFrames_

C18_StopsAtEndThenSilent ==
    [][ /\ (fpc = "f_loop" /\ fI < fNum /\ ~fLoop /\ fPos >= fEnd /\ fillVars' # fillVars)
           => /\ fpc' = "f_stoppos" /\ ~isPlaying_'
              /\ Len(fOut') = fNum
              /\ \A k \in 1..fNum : k <= fI => fOut'[k] = fOut[k]
              /\ \A k \in 1..fNum : k > fI => fOut'[k] = Silence
        /\ (fpc = "f_check" /\ fpc' # fpc /\ (~isPlaying_ \/ totalFrames_ = 0 \/ endReached))
           => fpc' = "f_done" /\ fOut' = Zeros(fNum)
      ]_allVars

\* a call stopped in the middle of its block: one frame, then silence
C18_Witness ==
    /\ fpc = "f_done" /\ endReached /\ ~isPlaying_
    /\ Len(fOut) = 2 /\ fOut[1] # Silence /\ fOut[2] = Silence

\* C36: every iteration of fillBuffer's loop that reads audioDataL_ /
\* audioDataR_ reads them at an index below the number of frames they hold,
\* whatever load, play, stop, pause, setLoop, setStartPosition and
\* setStopPosition calls were made, and whenever they were made.
C36_FillIndexInsideVectors ==
    [][ (FillEmitting /\ fillVars' # fillVars) => FillIndex < audioDataLen ]_allVars


(***************************************************************************)
(* Part 4: the process callback.  An input sample is a number; a sample of *)
(* a processing or output buffer records the input sample it came from,    *)
(* the DSP pass that produced it (0: none) and the backing-track samples   *)
(* that were added to it.  Block lengths stay within the engine's buffer   *)
(* size, as JACK's do.  The recorder is the one of part 2, reduced to its  *)
(* m_recording flag and to the block pushAudioFrame is called with.  Steps *)
(* that touch only the audio thread's own buffers are part of the step     *)
(* that follows the last read of a shared cell.                            *)
(***************************************************************************)
\* a block copied unchanged (memcpy)
Plain(block) == [i \in 1..Len(block) |-> [sig |-> block[i], dsp |-> 0, track |-> <<>>]]

\* a block run through the chain of processStereo in DSP pass number pass
Dsp(block, pass) == [i \in 1..Len(block) |-> [sig |-> block[i], dsp |-> pass, track |-> <<>>]]

\* buf[i] += trackBuffer[i]
MixBlock(block, trackBuffer) ==
    [i \in 1..Len(block) |->
        IF trackBuffer[i] = Silence THEN block[i]
        ELSE [block[i] EXCEPT !.track = Append(@, trackBuffer[i])]]

\* samples of the track in a block that fillBuffer produced
TrackSamples(trackBuffer) ==
    Cardinality({i \in 1..Len(trackBuffer) : trackBuffer[i] # Silence})

\* the right input taken as it is
RightInputOnly == inputR

\* the input the right chain reads: inputR, or inputL when there is none
RightInput == IF inputR = NoInput THEN inputL ELSE inputR

\* the buffer size the engine is constructed with (Engine.cpp:17)
m_bufferSize == MaxBlock

\* smoothGains: current * GAIN_SMOOTH_COEFF + target * (1 - GAIN_SMOOTH_COEFF)
\* in fixed point, with the coefficient 0.999 scaled to 1/2; like the float
\* expression it moves the value towards the target and leaves it alone
\* when it equals the target
SmoothGain(current, target) == (current + target) \div 2

\* ---- control thread: Engine's switches ----
CommandsLeft == engOps + trackOps < MaxEngOps

EngineControlIdle == CommandsLeft /\ bpc = "b_idle" /\ TrackRunning

SetBypass(bypass) ==
    /\ EngineControlIdle
    /\ m_bypass' = bypass
    /\ engOps' = engOps + 1
    /\ UNCHANGED <<m_includeBackingTrackInRecording, smoothCalls, dspBlocks,
                   m_xrunCount, gainCells, cbVars, callbacks, cbFrames>>
    /\ UNCHANGED <<laterVars, vars, recVars, trackVars>>

SetIncludeBackingTrackInRecording(enabled) ==
    /\ EngineControlIdle
    /\ m_includeBackingTrackInRecording' = enabled
    /\ engOps' = engOps + 1
    /\ UNCHANGED <<m_bypass, smoothCalls, dspBlocks, m_xrunCount, gainCells, cbVars,
                   callbacks, cbFrames>>
    /\ UNCHANGED <<laterVars, vars, recVars, trackVars>>

\* Engine::setInputGainL, with the linear gain already computed
SetInputGainL(linear) ==
    /\ EngineControlIdle
    /\ m_inputGainLinearL' = linear
    /\ engOps' = engOps + 1
    /\ UNCHANGED <<m_bypass, m_includeBackingTrackInRecording, smoothCalls, dspBlocks,
                   m_xrunCount, m_currentInputGainL, cbVars, callbacks, cbFrames>>
    /\ UNCHANGED <<laterVars, vars, recVars, trackVars>>

\* Engine::startRecording -> AudioRecorder::startRecording
EngineStartRecording ==
    /\ EngineControlIdle
    /\ ~m_recording
    /\ m_recording' = TRUE
    /\ engOps' = engOps + 1
    /\ UNCHANGED <<engCells, cbVars, callbacks, cbFrames>>
    /\ UNCHANGED <<laterVars, vars, recOther, trackVars>>

\* Engine::stopRecording -> AudioRecorder::stopRecording
EngineStopRecording ==
    /\ EngineControlIdle
    /\ m_recording
    /\ m_recording' = FALSE
    /\ engOps' = engOps + 1
    /\ UNCHANGED <<engCells, cbVars, callbacks, cbFrames>>
    /\ UNCHANGED <<laterVars, vars, recOther, trackVars>>

\* IPCServer: loadBackingTrack (of a file that decodes), playBackingTrack
\* and setBackingTrackLoop, within the same budget
LoadBackingTrack == CommandsLeft /\ LoadFile

PlayBackingTrack == CommandsLeft /\ Play

SetBackingTrackLoop(enabled) == CommandsLeft /\ SetLoop(enabled)

\* ---- audio thread: JackBackend::process ----
\* the block length counts as the one at which the guard lets go
OverflowsAtMax(n) == n >= m_bufferSize

\* processStereo: if (numSamples > static_cast<size_t>(m_bufferSize))
Overflows(n) == n > m_bufferSize

\* the port buffers are fetched and processStereo is called; a block longer
\* than the buffer size counts an xrun, is copied to the outputs and the
\* call returns
JackProcess(inL, inR) ==
    /\ epc = "e_idle" /\ TrackRunning
    /\ callbacks < MaxCallbacks
    /\ callbacks' = callbacks + 1
    /\ inputL' = inL
    /\ inputR' = inR
    /\ bufL' = <<>> /\ bufR' = <<>>
    /\ pushedL' = <<>> /\ pushedR' = <<>>
    /\ cbFrames' = 0
    /\ IF Overflows(Len(inL))
         THEN /\ m_xrunCount' = m_xrunCount + 1
              /\ outputL' = Plain(inL)
              /\ outputR' = Plain(IF inR = NoInput THEN inL ELSE inR)
              /\ epc' = "j_check"
         ELSE /\ outputL' = <<>> /\ outputR' = <<>>
              /\ epc' = "e_bypass"
              /\ UNCHANGED m_xrunCount
    /\ UNCHANGED <<m_bypass, m_includeBackingTrackInRecording, smoothCalls, dspBlocks,
                   gainCells, engOps>>
    /\ UNCHANGED <<laterVars, vars, recVars, trackVars>>

\* processStereo: if (m_bypass.load()) memcpy the inputs to the outputs and
\* return
EngineCheckBypass ==
    /\ epc = "e_bypass"
    /\ IF m_bypass
         THEN /\ outputL' = Plain(inputL)
              /\ outputR' = Plain(RightInput)
              /\ epc' = "j_check"
         ELSE /\ UNCHANGED <<outputL, outputR>>
              /\ epc' = "e_dsp"
    /\ UNCHANGED <<engCells, inputL, inputR, bufL, bufR, pushedL, pushedR, engCtl,
                   cbFrames>>
    /\ UNCHANGED <<laterVars, vars, recVars, trackVars>>

\* smoothGains(), then input gain, gate, model slots, EQ, DC blocker, output
\* gain and reverb on bufL / bufR
EngineDspChain ==
    /\ epc = "e_dsp"
    /\ smoothCalls' = smoothCalls + 1
    /\ m_currentInputGainL' = SmoothGain(m_currentInputGainL, m_inputGainLinearL)
    /\ dspBlocks' = dspBlocks + 1
    /\ bufL' = Dsp(inputL, dspBlocks + 1)
    /\ bufR' = Dsp(RightInput, dspBlocks + 1)
    /\ epc' = "e_rec"
    /\ UNCHANGED <<m_bypass, m_includeBackingTrackInRecording, m_xrunCount,
                   m_inputGainLinearL, inputL, inputR, outputL, outputR, pushedL,
                   pushedR, engCtl, cbFrames>>
    /\ UNCHANGED <<laterVars, vars, recVars, trackVars>>

\* the recording branch: isRecording(), include flag, isPlaying(); without
\* the track the block is pushed (when recording) and copied to the outputs
EngineRecordTap ==
    /\ epc = "e_rec"
    /\ IF m_recording /\ m_includeBackingTrackInRecording /\ isPlaying_
         THEN /\ FillCall(Len(inputL))
              /\ epc' = "e_fill"
              /\ UNCHANGED <<pushedL, pushedR, outputL, outputR, fills>>
         ELSE /\ IF m_recording
                   THEN pushedL' = bufL /\ pushedR' = bufR
                   ELSE UNCHANGED <<pushedL, pushedR>>
              /\ outputL' = bufL
              /\ outputR' = bufR
              /\ epc' = "j_check"
              /\ UNCHANGED <<fillVars, trackHist>>
    /\ UNCHANGED <<engCells, inputL, inputR, bufL, bufR, engCtl, cbFrames>>
    /\ UNCHANGED <<laterVars, vars, recVars, trackCells, trackCtl>>

\* the track is summed into bufL / bufR, the sum is pushed and copied to
\* the outputs
EngineMixAndPush ==
    /\ epc = "e_fill" /\ fpc = "f_done"
    /\ bufL' = MixBlock(bufL, fOut)
    /\ bufR' = MixBlock(bufR, fOut)
    /\ pushedL' = bufL' /\ pushedR' = bufR'
    /\ outputL' = bufL' /\ outputR' = bufR'
    /\ cbFrames' = cbFrames + TrackSamples(fOut)
    /\ fpc' = "f_idle"
    /\ epc' = "j_check"
    /\ UNCHANGED <<engCells, inputL, inputR, engCtl>>
    /\ UNCHANGED <<fNum, fI, fPos, fLoop, fStart, fEnd, fOut, fills>>
    /\ UNCHANGED <<laterVars, vars, recVars, trackCells, trackCtl, trackHist>>

\* JackBackend::process: if (m_backingTrack && m_backingTrack->isPlaying())
JackMixCheck ==
    /\ epc = "j_check"
    /\ IF isPlaying_
         THEN /\ FillCall(Len(inputL))
              /\ epc' = "j_fill"
              /\ UNCHANGED fills
         ELSE /\ epc' = "e_idle"
              /\ UNCHANGED <<fillVars, trackHist>>
    /\ UNCHANGED <<engCells, inputL, inputR, bufL, bufR, outputL, outputR, pushedL,
                   pushedR, engCtl, cbFrames>>
    /\ UNCHANGED <<laterVars, vars, recVars, trackCells, trackCtl>>

\* outputL[i] += trackBufferL[i]; outputR[i] += trackBufferR[i]; return 0
JackMixTrack ==
    /\ epc = "j_fill" /\ fpc = "f_done"
    /\ outputL' = MixBlock(outputL, fOut)
    /\ outputR' = MixBlock(outputR, fOut)
    /\ cbFrames' = cbFrames + TrackSamples(fOut)
    /\ fpc' = "f_idle"
    /\ epc' = "e_idle"
    /\ UNCHANGED <<engCells, inputL, inputR, bufL, bufR, pushedL, pushedR, engCtl>>
    /\ UNCHANGED <<fNum, fI, fPos, fLoop, fStart, fEnd, fOut, fills>>
    /\ UNCHANGED <<laterVars, vars, recVars, trackCells, trackCtl, trackHist>>

\* the input blocks of length n: every sample of the two ports is different
InputsL(n) == {[i \in 1..n |-> i]}
InputsR(n) == {[i \in 1..n |-> MaxBlock + i], NoInput}

EngNext ==
    \/ \E bypass \in BOOLEAN : SetBypass(bypass)
    \/ \E enabled \in BOOLEAN : SetIncludeBackingTrackInRecording(enabled)
    \/ EngineStartRecording
    \/ EngineStopRecording
    \/ LoadBackingTrack
    \/ UnloadStop
    \/ UnloadClear
    \/ LoadAssign
    \/ PlayBackingTrack
    \/ \E enabled \in BOOLEAN : SetBackingTrackLoop(enabled)
    \/ PlaySetPlaying
    \/ \E n \in 1..MaxBlock : \E inL \in InputsL(n) : \E inR \in InputsR(n) :
          JackProcess(inL, inR)
    \/ EngineCheckBypass
    \/ EngineDspChain
    \/ EngineRecordTap
    \/ EngineMixAndPush
    \/ JackMixCheck
    \/ JackMixTrack
    \/ FillSteps

EngineSpec == AllInit /\ [][EngNext]_allVars


(***************************************************************************)
(* Properties of the process callback.                                     *)
(***************************************************************************)
\* the block is the block of samples `samples`, untouched
SameSamples(block, samples) ==
    /\ Len(block) = Len(samples)
    /\ \A i \in 1..Len(samples) :
          block[i].sig = samples[i] /\ block[i].dsp = 0 /\ block[i].track = <<>>

\* C15: while recording is active every block processStereo handles is
\* handed to the recorder, also with whole-engine bypass on, where the
\* pushed samples are the block's input samples.
C15_EveryBlockRecorded ==
    [][ /\ (epc = "e_bypass" /\ epc' = "j_check" /\ m_recording)
           => /\ SameSamples(pushedL', inputL)
              /\ SameSamples(pushedR', RightInput)
        /\ (epc = "e_rec" /\ epc' = "j_check" /\ m_recording)
           => pushedL' = bufL /\ pushedR' = bufR
        /\ (epc = "e_fill" /\ epc' = "j_check")
           => pushedL' = bufL' /\ pushedR' = bufR'
      ]_allVars

\* C19: a callback that ends with the track playing has mixed exactly one
\* track sample into every sample of the audible output and has taken as
\* many samples from the track as the block is long, whatever the recording
\* switches are.
C19_TrackMixedOnce ==
    [][ (epc = "j_fill" /\ epc' = "e_idle" /\ TrackSamples(fOut) = Len(inputL))
           => /\ \A i \in 1..Len(inputL) :
                    Len(outputL'[i].track) = 1 /\ Len(outputR'[i].track) = 1
              /\ cbFrames' = Len(inputL)
      ]_allVars

\* C20: with bypass on, processStereo copies the left input to the left
\* output and the right input (the left one when there is no right input)
\* to the right output, sample for sample, and returns without touching the
\* smoothing state, the DSP state, the processing buffers or the model slot.
C20_BypassIsIdentity ==
    [][ (epc = "e_bypass" /\ m_bypass /\ epc' # epc)
           => /\ epc' = "j_check"
              /\ SameSamples(outputL', inputL)
              /\ SameSamples(outputR', IF inputR = NoInput THEN inputL ELSE inputR)
              /\ UNCHANGED <<smoothCalls, dspBlocks, bufL, bufR>>
              /\ UNCHANGED vars
      ]_allVars

\* a bypassed block of two samples without right input, after a block that
\* went through the DSP chain
C20_Witness ==
    /\ epc = "j_check" /\ m_bypass /\ dspBlocks > 0
    /\ inputR = NoInput /\ Len(inputL) = 2
    /\ SameSamples(outputR, inputL)


(***************************************************************************)
(* Part 5: processStereo called with any block length, from 0 to one more  *)
(* than the buffer size, while the control thread sets bypass, the input   *)
(* gain and the recording switch.  No backing track is loaded.             *)
(***************************************************************************)
BlockLengths == 0..(m_bufferSize + 1)

BlockNext ==
    \/ \E bypass \in BOOLEAN : SetBypass(bypass)
    \/ \E linear \in GainInputs : SetInputGainL(linear)
    \/ EngineStartRecording
    \/ EngineStopRecording
    \/ \E n \in BlockLengths : \E inL \in InputsL(n) : \E inR \in InputsR(n) :
          JackProcess(inL, inR)
    \/ EngineCheckBypass
    \/ EngineDspChain
    \/ EngineRecordTap
    \/ JackMixCheck

BlockSpec == AllInit /\ [][BlockNext]_allVars

\* C21: a processStereo call with a block longer than the buffer size adds
\* exactly 1 to the xrun counter, copies the inputs to the outputs and
\* returns with no other engine state changed (no smoothing step, no DSP
\* state, nothing pushed to the recorder); a call with a block of at most
\* the buffer size goes on to the bypass test with the counter unchanged,
\* and no later step of a call changes the counter.
C21_OverflowCountsAndPassesThrough ==
    [][ /\ (epc = "e_idle" /\ epc' # epc /\ Len(inputL') > m_bufferSize)
           => /\ m_xrunCount' = m_xrunCount + 1
              /\ epc' = "j_check"
              /\ SameSamples(outputL', inputL')
              /\ SameSamples(outputR', IF inputR' = NoInput THEN inputL' ELSE inputR')
              /\ pushedL' = <<>> /\ pushedR' = <<>>
              /\ UNCHANGED <<m_bypass, smoothCalls, dspBlocks, gainCells>>
              /\ UNCHANGED <<vars, recVars, trackVars>>
        /\ (epc = "e_idle" /\ epc' # epc /\ Len(inputL') <= m_bufferSize)
           => epc' = "e_bypass" /\ m_xrunCount' = m_xrunCount
        /\ epc # "e_idle" => m_xrunCount' = m_xrunCount
      ]_allVars

\* a block of exactly the buffer size has gone through the DSP chain, after
\* an earlier block that was too long
C21_Witness ==
    /\ m_xrunCount = 1
    /\ Len(inputL) = m_bufferSize
    /\ epc = "j_check"
    /\ outputL = Dsp(inputL, 1)

\* C22: no step of a processStereo call with block length 0 changes the
\* engine's state: the smoothed input gain (also when it differs from its
\* target), the xrun counter, the model slot with its fade state, the
\* recorder ring and the backing-track cursor.
C22_EmptyBlockChangesNothing ==
    [][ (epc' # epc /\ Len(inputL') = 0)
           => /\ UNCHANGED <<m_currentInputGainL, m_xrunCount>>
              /\ UNCHANGED <<vars, recVars, playbackPosition_>>
      ]_allVars


(***************************************************************************)
(* Part 6: ThreeBandEQ.  Every access of an atomic cell is one step.  The  *)
(* plain members m_*GainTarget / m_*GainSmooth are written and read but    *)
(* never enter the filters; they carry no state here.                      *)
(***************************************************************************)
\* db = std::max(-20.0f, std::min(20.0f, db))
ClampDb(db) == IF db < -EqMaxDb THEN -EqMaxDb ELSE IF db > EqMaxDb THEN EqMaxDb ELSE db

\* ---- control thread ----
SetterIdle == spc = "s_idle" /\ eqOps < MaxEqOps

\* setEnabled
EqSetEnabled(enabled) ==
    /\ SetterIdle
    /\ m_enabled' = enabled
    /\ eqOps' = eqOps + 1
    /\ UNCHANGED <<m_bass, m_mid, m_coeffsDirty, m_bassCoeffs, m_midCoeffs, qpc, spc>>
    /\ UNCHANGED outsideEq

\* setBass: m_bass.store(db)
EqSetBass(db) ==
    /\ SetterIdle
    /\ m_bass' = ClampDb(db)
    /\ spc' = "s_dirty"
    /\ eqOps' = eqOps + 1
    /\ UNCHANGED <<m_enabled, m_mid, m_coeffsDirty, m_bassCoeffs, m_midCoeffs, qpc>>
    /\ UNCHANGED outsideEq

\* setMid: m_mid.store(db)
EqSetMid(db) ==
    /\ SetterIdle
    /\ m_mid' = ClampDb(db)
    /\ spc' = "s_dirty"
    /\ eqOps' = eqOps + 1
    /\ UNCHANGED <<m_enabled, m_bass, m_coeffsDirty, m_bassCoeffs, m_midCoeffs, qpc>>
    /\ UNCHANGED outsideEq

\* the setter's last statement: m_coeffsDirty.store(true)
EqSetDirty ==
    /\ spc = "s_dirty"
    /\ m_coeffsDirty' = TRUE
    /\ spc' = "s_idle"
    /\ UNCHANGED <<m_enabled, m_bass, m_mid, m_bassCoeffs, m_midCoeffs, qpc, eqOps>>
    /\ UNCHANGED outsideEq

\* ---- audio thread: process(float input) ----
\* if (!m_enabled.load()) return input
EqProcess ==
    /\ qpc = "q_idle"
    /\ qpc' = IF m_enabled THEN "q_dirty" ELSE "q_idle"
    /\ UNCHANGED <<eqCells, spc, eqOps>>
    /\ UNCHANGED outsideEq

\* if (m_coeffsDirty.load()); without it the sample is filtered with the
\* coefficients as they are
EqLoadDirty ==
    /\ qpc = "q_dirty"
    /\ qpc' = IF m_coeffsDirty THEN "q_bass" ELSE "q_idle"
    /\ UNCHANGED <<eqCells, spc, eqOps>>
    /\ UNCHANGED outsideEq

\* updateCoefficients: m_bassCoeffs = calculateLowShelf(.., m_bass.load(), ..)
EqUpdateBass ==
    /\ qpc = "q_bass"
    /\ m_bassCoeffs' = LowShelf(m_bass)
    /\ qpc' = "q_mid"
    /\ UNCHANGED <<m_enabled, m_bass, m_mid, m_coeffsDirty, m_midCoeffs, spc, eqOps>>
    /\ UNCHANGED outsideEq

\* updateCoefficients: m_midCoeffs = calculatePeaking(.., m_mid.load(), ..)
EqUpdateMid ==
    /\ qpc = "q_mid"
    /\ m_midCoeffs' = Peaking(m_mid)
    /\ qpc' = "q_clear"
    /\ UNCHANGED <<m_enabled, m_bass, m_mid, m_coeffsDirty, m_bassCoeffs, spc, eqOps>>
    /\ UNCHANGED outsideEq

\* m_coeffsDirty.store(false); the sample is filtered
EqClearDirty ==
    /\ qpc = "q_clear"
    /\ m_coeffsDirty' = FALSE
    /\ qpc' = "q_idle"
    /\ UNCHANGED <<m_enabled, m_bass, m_mid, m_bassCoeffs, m_midCoeffs, spc, eqOps>>
    /\ UNCHANGED outsideEq

EqAudio == EqProcess \/ EqLoadDirty \/ EqUpdateBass \/ EqUpdateMid \/ EqClearDirty

EqNext ==
    \/ \E enabled \in BOOLEAN : EqSetEnabled(enabled)
    \/ \E db \in DbInputs : EqSetBass(db)
    \/ \E db \in DbInputs : EqSetMid(db)
    \/ EqSetDirty
    \/ EqProcess
    \/ EqLoadDirty
    \/ EqUpdateBass
    \/ EqUpdateMid
    \/ EqClearDirty

\* the audio thread keeps processing samples and a setter that has begun
\* runs to its end
EqSpec == AllInit /\ [][EqNext]_allVars /\ WF_allVars(EqAudio) /\ WF_allVars(EqSetDirty)

\* C23: if from some point on the EQ stays enabled, then from some point on
\* the coefficients the audio thread filters with are those of the values
\* last written to the gain cells, also when a setter runs between the
\* audio thread's recomputation and its clearing of the dirty flag.
C23_LastWriteReachesCoefficients ==
    (<>[]m_enabled) => <>[](m_bassCoeffs = LowShelf(m_bass) /\ m_midCoeffs = Peaking(m_mid))


(***************************************************************************)
(* Part 7: stopping the worker.  m_workerRunning is stored by the          *)
(* destructor without m_workerMutex, so the worker's evaluation of the     *)
(* wait predicate and its going to sleep are separate steps.  A wait       *)
(* returns only after a notification: the code cannot count on spurious    *)
(* wake-ups.  doLoadModel is one step here; all its waits are timed.       *)
(***************************************************************************)
\* ---- worker thread: workerThread ----
\* while (m_workerRunning.load())
WorkerLoopTest ==
    /\ kpc = "k_loop"
    /\ kpc' = IF m_workerRunning THEN "k_lock" ELSE "k_exit"
    /\ UNCHANGED <<m_workerRunning, xpc, stopOps, m_loadRequested, m_workerMutex>>
    /\ UNCHANGED outsideStop

\* unique_lock lock(m_workerMutex), and the re-acquisition inside wait
WorkerLock ==
    /\ kpc = "k_lock"
    /\ m_workerMutex = Free
    /\ m_workerMutex' = "worker"
    /\ kpc' = "k_pred"
    /\ UNCHANGED <<m_workerRunning, xpc, stopOps, m_loadRequested>>
    /\ UNCHANGED outsideStop

\* the predicate of m_workerCV.wait: m_loadRequested || !m_workerRunning
WorkerPredicate ==
    /\ kpc = "k_pred"
    /\ kpc' = IF m_loadRequested \/ ~m_workerRunning THEN "k_check" ELSE "k_wait"
    /\ UNCHANGED <<m_workerRunning, xpc, stopOps, m_loadRequested, m_workerMutex>>
    /\ UNCHANGED outsideStop

\* condition_variable::wait(lock): releases the mutex and blocks
WorkerBlock ==
    /\ kpc = "k_wait"
    /\ m_workerMutex' = Free
    /\ kpc' = "k_sleep"
    /\ UNCHANGED <<m_workerRunning, xpc, stopOps, m_loadRequested>>
    /\ UNCHANGED outsideStop

\* if (!m_workerRunning.load()) break; the lock is released on the way out
WorkerCheckRunning ==
    /\ kpc = "k_check"
    /\ IF m_workerRunning
         THEN kpc' = "k_req" /\ UNCHANGED m_workerMutex
         ELSE kpc' = "k_exit" /\ m_workerMutex' = Free
    /\ UNCHANGED <<m_workerRunning, xpc, stopOps, m_loadRequested>>
    /\ UNCHANGED outsideStop

\* if (m_loadRequested.load()) { ...; m_loadRequested.store(false);
\* lock.unlock(); doLoadModel(pathToLoad); }
WorkerTakeRequest ==
    /\ kpc = "k_req"
    /\ m_loadRequested' = FALSE
    /\ m_workerMutex' = Free
    /\ kpc' = IF m_loadRequested THEN "k_load" ELSE "k_loop"
    /\ UNCHANGED <<m_workerRunning, xpc, stopOps>>
    /\ UNCHANGED outsideStop

\* doLoadModel returns
WorkerLoadDone ==
    /\ kpc = "k_load"
    /\ kpc' = "k_loop"
    /\ UNCHANGED <<m_workerRunning, xpc, stopOps, m_loadRequested, m_workerMutex>>
    /\ UNCHANGED outsideStop

\* notify_one / notify_all on m_workerCV: a sleeping worker goes on to
\* re-acquire the mutex
WakeWorker(pc) == IF pc = "k_sleep" THEN "k_lock" ELSE pc

\* ---- main thread ----
\* loadModelAsync: the block under lock_guard(m_workerMutex)
StopLoadModelAsync(p) ==
    /\ xpc = "x_idle"
    /\ stopOps < MaxOps
    /\ LoadModelAsyncStore(p)
    /\ xpc' = "x_notify"
    /\ stopOps' = stopOps + 1
    /\ UNCHANGED <<m_workerRunning, kpc>>
    /\ UNCHANGED <<loaderVars, fadeVars, m_syncMutex, m_modelPaths, workerVars, ctrlVars,
                   audioVars, fadeOutSignalled>>
    /\ UNCHANGED <<recVars, trackVars, engVars, eqVars, jackVars, ipcVars, lastVars>>

\* loadModelAsync: m_workerCV.notify_one()
StopLoadNotify ==
    /\ xpc = "x_notify"
    /\ kpc' = WakeWorker(kpc)
    /\ xpc' = "x_idle"
    /\ UNCHANGED <<m_workerRunning, stopOps, m_loadRequested, m_workerMutex>>
    /\ UNCHANGED outsideStop

\* ~ModelLoader: m_workerRunning.store(false)
DtorStoreRunning ==
    /\ xpc = "x_idle"
    /\ m_workerRunning' = FALSE
    /\ xpc' = "x_dnotify"
    /\ UNCHANGED <<kpc, stopOps, m_loadRequested, m_workerMutex>>
    /\ UNCHANGED outsideStop

\* ~ModelLoader: m_workerCV.notify_all()
DtorNotify ==
    /\ xpc = "x_dnotify"
    /\ kpc' = WakeWorker(kpc)
    /\ xpc' = "x_join"
    /\ UNCHANGED <<m_workerRunning, stopOps, m_loadRequested, m_workerMutex>>
    /\ UNCHANGED outsideStop

\* ~ModelLoader: m_workerThread.join() returns once workerThread has
\* returned
DtorJoin ==
    /\ xpc = "x_join"
    /\ kpc = "k_exit"
    /\ xpc' = "x_done"
    /\ UNCHANGED <<m_workerRunning, kpc, stopOps, m_loadRequested, m_workerMutex>>
    /\ UNCHANGED outsideStop

StopWorker ==
    \/ WorkerLoopTest \/ WorkerLock \/ WorkerPredicate \/ WorkerBlock
    \/ WorkerCheckRunning \/ WorkerTakeRequest \/ WorkerLoadDone

StopNext ==
    \/ WorkerLoopTest
    \/ WorkerLock
    \/ WorkerPredicate
    \/ WorkerBlock
    \/ WorkerCheckRunning
    \/ WorkerTakeRequest
    \/ WorkerLoadDone
    \/ \E p \in Paths : StopLoadModelAsync(p)
    \/ StopLoadNotify
    \/ DtorStoreRunning
    \/ DtorNotify
    \/ DtorJoin

\* both threads keep running: a step that stays possible is taken
StopSpec ==
    /\ AllInit /\ [][StopNext]_allVars
    /\ WF_allVars(StopWorker)
    /\ WF_allVars(DtorNotify) /\ WF_allVars(DtorJoin)

\* C24: destroying a ModelLoader always terminates: once the destructor has
\* stored false to the running flag, its join of the worker returns, in
\* every interleaving with the worker, also when store and notification
\* fall between the worker's evaluation of the wait predicate and its going
\* to sleep.
C24_DestructorReturns == (xpc = "x_dnotify") ~> (xpc = "x_done")


(***************************************************************************)
(* Part 8: the JACK connection.  jack_client_open and the port             *)
(* registrations succeed when the server is up; jack_activate may fail     *)
(* also then.  The supervisor loop sleeps one second per round.            *)
(***************************************************************************)
\* JackBackend::init: the status it leaves and whether a client is open
InitStatus == IF serverUp THEN "Connected" ELSE "Error"

\* main(): backend.init(clientName, autoConnect)
MainInit ==
    /\ mpc = "m_init"
    /\ m_status' = InitStatus
    /\ m_client' = serverUp
    /\ mpc' = IF serverUp THEN "m_start" ELSE "m_loop"
    /\ UNCHANGED <<m_running, m_shutdownCalled, jackConnected, elapsed, serverUp>>
    /\ UNCHANGED outsideJack

\* main(): if (!backend.start()) ... else jackConnected = true
MainStart(ok) ==
    /\ mpc = "m_start"
    /\ IF m_client /\ serverUp /\ ok
         THEN m_running' = TRUE /\ jackConnected' = TRUE
         ELSE UNCHANGED <<m_running, jackConnected>>
    /\ mpc' = "m_loop"
    /\ UNCHANGED <<m_status, m_shutdownCalled, m_client, elapsed, serverUp>>
    /\ UNCHANGED outsideJack

\* one more second since lastRetryTime
SecondLater == IF elapsed < RETRY_INTERVAL_SECONDS THEN elapsed + 1 ELSE elapsed

\* the supervisor loop: sleep 1 s; status = backend.getStatus(); when it is
\* not Connected and the interval has elapsed, reconnect is called
SupervisorRound ==
    /\ mpc = "m_loop"
    /\ elapsed' = SecondLater
    /\ mpc' = IF m_status # "Connected" /\ SecondLater >= RETRY_INTERVAL_SECONDS
                THEN "m_reconnect" ELSE "m_loop"
    /\ UNCHANGED <<jackCells, jackConnected, serverUp>>
    /\ UNCHANGED outsideJack

\* reconnect: stop() (a running client is deactivated), jack_client_close
\* unless JACK has closed the client, the members reset
ReconnectStop ==
    /\ mpc = "m_reconnect"
    /\ IF m_client /\ m_running
         THEN m_running' = FALSE /\ m_status' = "Disconnected"
         ELSE UNCHANGED <<m_running, m_status>>
    /\ m_client' = FALSE
    /\ m_shutdownCalled' = FALSE
    /\ mpc' = "m_reinit"
    /\ UNCHANGED <<jackConnected, elapsed, serverUp>>
    /\ UNCHANGED outsideJack

\* reconnect: init()
ReconnectInit ==
    /\ mpc = "m_reinit"
    /\ m_status' = InitStatus
    /\ m_client' = serverUp
    /\ mpc' = IF serverUp THEN "m_restart" ELSE "m_failed"
    /\ UNCHANGED <<m_running, m_shutdownCalled, jackConnected, elapsed, serverUp>>
    /\ UNCHANGED outsideJack

\* reconnect: start(); on success main() sets jackConnected; lastRetryTime
\* = now either way
ReconnectStart(ok) ==
    /\ mpc = "m_restart"
    /\ IF m_client /\ serverUp /\ ok
         THEN m_running' = TRUE /\ jackConnected' = TRUE
         ELSE UNCHANGED <<m_running, jackConnected>>
    /\ elapsed' = 0
    /\ mpc' = "m_loop"
    /\ UNCHANGED <<m_status, m_shutdownCalled, m_client, serverUp>>
    /\ UNCHANGED outsideJack

\* reconnect returned false out of init(): lastRetryTime = now
ReconnectFailed ==
    /\ mpc = "m_failed"
    /\ elapsed' = 0
    /\ mpc' = "m_loop"
    /\ UNCHANGED <<jackCells, jackConnected, serverUp>>
    /\ UNCHANGED outsideJack

\* the JACK server goes down: an activated client gets shutdownCallback, a
\* client that is only open may get it
JackServerDown(delivered) ==
    /\ serverUp
    /\ serverUp' = FALSE
    /\ IF m_client /\ ~m_shutdownCalled /\ (m_running \/ delivered)
         THEN /\ m_running' = FALSE
              /\ m_status' = "Disconnected"
              /\ m_shutdownCalled' = TRUE
         ELSE UNCHANGED <<m_running, m_status, m_shutdownCalled>>
    /\ UNCHANGED <<m_client, mpc, jackConnected, elapsed>>
    /\ UNCHANGED outsideJack

\* the JACK server comes up
JackServerUp ==
    /\ ~serverUp
    /\ serverUp' = TRUE
    /\ UNCHANGED <<jackCells, mpc, jackConnected, elapsed>>
    /\ UNCHANGED outsideJack

JackMain ==
    \/ MainInit
    \/ \E ok \in BOOLEAN : MainStart(ok)
    \/ SupervisorRound
    \/ ReconnectStop
    \/ ReconnectInit
    \/ \E ok \in BOOLEAN : ReconnectStart(ok)
    \/ ReconnectFailed

JackNext ==
    \/ MainInit
    \/ \E ok \in BOOLEAN : MainStart(ok)
    \/ SupervisorRound
    \/ ReconnectStop
    \/ ReconnectInit
    \/ \E ok \in BOOLEAN : ReconnectStart(ok)
    \/ ReconnectFailed
    \/ \E delivered \in BOOLEAN : JackServerDown(delivered)
    \/ JackServerUp

\* main() keeps running
JackSpec == AllInit /\ [][JackNext]_allVars /\ WF_allVars(JackMain)

\* the driver delivers audio: the backend is connected and running
Delivering == m_status = "Connected" /\ m_running

\* C25: while the process runs, either the backend is connected and
\* running again and again, or the supervisor loop calls reconnect again
\* and again: it never stays without audio and without retrying, whether
\* init failed, activation in start() failed or JACK shut the client down.
C25_RetriesUntilDelivering == ([]<>Delivering) \/ ([]<>(mpc = "m_reconnect"))


(***************************************************************************)
(* The return value of startRecording.                                     *)
(***************************************************************************)
\* startRecording has returned the file path and the control thread has made
\* no call since
StartReturnedPath == rLast = "start" /\ rpc = "r_idle"

\* C30: a startRecording that finds a recording active returns "" and leaves
\* the ring positions and the dropped-frames counter as they are; once
\* startRecording has returned a path, the recorder is recording and its
\* writer thread runs with the file open (or is about to open it): a file
\* that cannot be opened makes startRecording return "".
C30_PathMeansRecordingToOpenFile ==
    [][ /\ (rLast' = "start_refused" /\ recOps' = recOps + 1)
           => UNCHANGED <<m_writePos, m_readPos, m_droppedFrames>>
        /\ StartReturnedPath'
           => /\ m_recording'
              /\ m_writerThread' = "running"
              /\ (tpc' = "t_open" \/ wavOpen')
      ]_allVars


(***************************************************************************)
(* The ring under overflow, at stop and over several recordings.           *)
(***************************************************************************)
\* C31: pushAudioFrame takes the drop branch exactly when the free space it
\* computed is less than the block needs; the drop writes no slot, leaves the
\* write position, adds the block's frame count to the dropped-frames counter
\* and returns; a block that is stored is stored whole (all its frames, then
\* the position) and is not counted.
C31_FullRingDropsWholeBlock ==
    [][ /\ (ppc = "p_rpos" /\ ppc' # ppc)
           => /\ ppc' \in {"p_drop", "p_write"}
              /\ ppc' = "p_drop" <=> PushAvailable(pWritePos, m_readPos) < pNum * 2
        /\ (ppc = "p_drop" /\ ppc' # ppc)
           => /\ ppc' = "p_idle"
              /\ pI = 0
              /\ UNCHANGED <<m_writePos, unreadSlots>>
              /\ m_droppedFrames' = m_droppedFrames + pNum
        /\ (ppc = "p_write" /\ ppc' # ppc) => (ppc' = "p_store" /\ pI' = pNum)
        /\ (ppc = "p_store" /\ ppc' # ppc)
           => (ppc' = "p_idle" /\ UNCHANGED m_droppedFrames)
      ]_allVars

\* a block of MaxBlock frames was dropped by a recording in progress whose
\* ring still holds unread samples
C31_Witness ==
    /\ m_recording
    /\ ppc = "p_idle"
    /\ m_droppedFrames = MaxBlock
    /\ unreadSlots # {}
    /\ m_writePos # m_readPos

\* C32: once the writer thread has finished and no pushAudioFrame call is in
\* progress, no sample that pushAudioFrame stored is left unread in the ring:
\* every accepted sample has gone to the file, those in the ring at
\* stopRecording and those of a push in progress at that moment included.
C32_AcceptedSamplesAllWritten ==
    (tpc = "t_done" /\ ppc = "p_idle" /\ rpc \in {"r_idle", "x_join"})
        => unreadSlots = {}

\* C33: every copy from the ring into batch[] stays inside it: the index of
\* the main loop's copy is below BATCH_SIZE, and the number of samples the
\* final flush copies is at most BATCH_SIZE.
C33_CopiesStayInsideBatch ==
    [][ /\ (tpc = "t_copy" /\ tI' # tI) => tI < BATCH_SIZE
        /\ (tpc = "t_flush" /\ tpc' # tpc)
           => ReadAvailable(m_readPos, m_writePos) <= BATCH_SIZE
      ]_allVars

\* C34: both positions of the ring are even at all times, the number of
\* unread samples the writer thread computes from them is even, each batch of
\* the main loop starts at an even position and holds an even number of
\* samples, and so does the flush: a batch is a sequence of whole L,R frames.
C34_BatchesAreWholeFrames ==
    /\ m_writePos % 2 = 0
    /\ m_readPos % 2 = 0
    /\ ReadAvailable(m_readPos, m_writePos) % 2 = 0
    /\ ppc \in {"p_rpos", "p_write", "p_store", "p_drop"} => pWritePos % 2 = 0
    /\ tpc \in {"t_copy", "t_store"}
          => /\ toRead % 2 = 0
             /\ (tReadPos - tI) % 2 = 0
    /\ pcmBytes % (2 * BytesPerSample) = 0

\* the writer thread has copied a full batch out of a ring that held more
\* than a batch, and is about to hand it to the WAV writer
C34_Witness ==
    /\ tpc = "t_store"
    /\ toRead = BATCH_SIZE
    /\ ReadAvailable(m_readPos, m_writePos) > BATCH_SIZE
    /\ pcmBytes = 0

\* C35: startRecording creates the writer thread only when m_writerThread
\* holds no thread: a handle of a thread that was not joined is never
\* assigned over.
C35_NoJoinableHandleOverwritten ==
    [][ (rpc = "s_go" /\ rpc' # rpc) => m_writerThread = "none" ]_allVars


(***************************************************************************)
(* Part 9: IPCServer::handleCommand.  A message is garbage, a JSON value   *)
(* that is not an object, or an object with an action and the arguments    *)
(* the branches read: slot (a number, or a string), a boolean (bypass /    *)
(* enabled) and modelPath.  The handler's calls on Engine, BackingTrack    *)
(* and ConfigPersistence are listed in the order it makes them; the cells  *)
(* that the claims are about are set as the calls set them.  A save of the *)
(* runtime document opens the file with std::ofstream, which truncates it, *)
(* and then writes the text: two steps, between which the process may die. *)
(***************************************************************************)
\* the actions with a slot argument, with a boolean argument
SlotActions == {"loadModel", "setActiveModel", "setActiveModelL", "setActiveModelR",
                "unloadModel"}
FlagActions == {"setBypass", "setBypassModel", "setIncludeBackingTrackInRecording"}
PlainActions == {"getStatus", "startRecording", "stopRecording", "playBackingTrack"}
KnownActions == SlotActions \cup FlagActions \cup PlainActions

SlotInputs == {-1, 0, 1, 2}

ObjectMessage(action, slot, slotIsNumber, flag, path) ==
    [kind |-> "object", action |-> action, slot |-> slot, slotIsNumber |-> slotIsNumber,
     flag |-> flag, path |-> path]

\* the messages the socket receives
Messages ==
    {Garbage_Message, [Garbage_Message EXCEPT !.kind = "array"]}
    \cup {ObjectMessage(a, 0, TRUE, FALSE, NoPath) : a \in PlainActions \cup {"", "frobnicate"}}
    \cup {ObjectMessage(a, 0, TRUE, f, NoPath) : a \in FlagActions, f \in BOOLEAN}
    \cup {ObjectMessage(a, sl, TRUE, FALSE, "a.nam") : a \in SlotActions, sl \in SlotInputs}
    \cup {ObjectMessage(a, 0, FALSE, FALSE, "a.nam") : a \in SlotActions}
    \cup {ObjectMessage("loadModel", sl, TRUE, FALSE, NoPath) : sl \in {0, 2}}

\* the slot test of the branches accepts 2 as well
SlotInRangeUpToTwo(slot) == ~(slot < 0 \/ slot > 2)

\* the branches' test: slot < 0 || slot > 1 is an invalid slot
SlotInRange(slot) == ~(slot < 0 \/ slot > 1)

\* ConfigPersistence::load: the document of the file, the empty object when
\* the file does not hold one
LoadDoc == IF runtimeFile.complete THEN runtimeFile.doc ELSE EmptyDoc

\* "slot" + std::to_string(slot) + "Model"
SlotKey(slot) == IF slot = 0 THEN "slot0Model" ELSE "slot1Model"

\* what a branch leaves as it is: no call, no save, the cells unchanged
Same ==
    [resp |-> EmptyDoc, calls |-> <<>>, save |-> FALSE, doc |-> LoadDoc,
     activeSlot |-> m_activeSlot, activeSlotL |-> m_activeSlotL,
     activeSlotR |-> m_activeSlotR, bypass |-> m_bypass, bypassModel |-> m_bypassModel,
     include |-> m_includeBackingTrackInRecording, recording |-> m_recording,
     slots |-> slotState]

\* response["success"] = false; response["error"] = ...
Failure(error) == Put(Put(EmptyDoc, "success", FALSE), "error", error)

\* response["success"] = true
Success == Put(EmptyDoc, "success", TRUE)

InvalidSlot == [Same EXCEPT !.resp = Failure("Invalid slot (must be 0 or 1)")]

\* the branches of handleCommand for a parsed object
Branch(msg) ==
    CASE msg.action = "loadModel" ->
           IF msg.path = NoPath THEN [Same EXCEPT !.resp = Failure("Missing modelPath")]
           ELSE IF ~SlotInRange(msg.slot) THEN InvalidSlot
           ELSE [Same EXCEPT !.calls = <<"loadModelAsync", "saveModelConfig", "setBypass">>,
                             !.save = TRUE,
                             !.doc = Put(LoadDoc, SlotKey(msg.slot), msg.path),
                             !.bypass = FALSE,
                             !.slots = [slotState EXCEPT ![msg.slot] = "loading"],
                             !.resp = Put(Success, "slot", msg.slot)]
      [] msg.action = "setActiveModel" ->
           IF ~SlotInRange(msg.slot) THEN InvalidSlot
           ELSE [Same EXCEPT !.calls = <<"setActiveModel", "saveActiveSlot",
                                        "notifyStatusChange">>,
                             !.activeSlot = IF msg.slot \in {0, 1} THEN msg.slot ELSE @,
                             !.activeSlotL = IF msg.slot \in {0, 1} THEN msg.slot ELSE @,
                             !.activeSlotR = IF msg.slot \in {0, 1} THEN msg.slot ELSE @,
                             !.save = TRUE,
                             !.doc = Put(LoadDoc, "activeSlot", msg.slot),
                             !.resp = Put(Success, "slot", msg.slot)]
      [] msg.action = "setActiveModelL" ->
           IF ~SlotInRange(msg.slot) THEN InvalidSlot
           ELSE [Same EXCEPT !.calls = <<"setActiveModelL", "notifyStatusChange">>,
                             !.activeSlotL = IF msg.slot \in {0, 1} THEN msg.slot ELSE @,
                             !.resp = Put(Success, "slot", msg.slot)]
      [] msg.action = "setActiveModelR" ->
           IF ~SlotInRange(msg.slot) THEN InvalidSlot
           ELSE [Same EXCEPT !.calls = <<"setActiveModelR", "notifyStatusChange">>,
                             !.activeSlotR = IF msg.slot \in {0, 1} THEN msg.slot ELSE @,
                             !.resp = Put(Success, "slot", msg.slot)]
      [] msg.action = "unloadModel" ->
           IF ~SlotInRange(msg.slot) THEN InvalidSlot
           ELSE [Same EXCEPT !.calls = <<"unloadModel", "clearSlotConfig", "setBypass",
                                        "notifyStatusChange">>,
                             !.save = TRUE,
                             !.doc = Erase(LoadDoc, SlotKey(msg.slot)),
                             !.bypass = TRUE,
                             !.slots = [slotState EXCEPT ![msg.slot] = "empty"],
                             !.resp = Put(Success, "slot", msg.slot)]
      [] msg.action = "getStatus" ->
           [Same EXCEPT !.resp = Put(Put(Put(Put(Put(Success,
                                   "activeModel", m_activeSlot),
                                   "activeModelL", m_activeSlotL),
                                   "activeModelR", m_activeSlotR),
                                   "bypass", m_bypass),
                                   "recording", m_recording)]
      [] msg.action = "setBypass" ->
           [Same EXCEPT !.calls = <<"setBypass", "notifyStatusChange">>,
                        !.bypass = msg.flag,
                        !.resp = Put(Success, "bypass", msg.flag)]
      [] msg.action = "setBypassModel" ->
           [Same EXCEPT !.calls = <<"setBypassModel", "notifyStatusChange">>,
                        !.bypassModel = msg.flag,
                        !.resp = Put(Success, "bypassModel", msg.flag)]
      [] msg.action = "startRecording" ->
           \* AudioRecorder::startRecording returns "" when a recording is
           \* active, the file path otherwise
           IF m_recording
             THEN [Same EXCEPT !.calls = <<"startRecording">>,
                               !.resp = Failure("Failed to start recording")]
             ELSE [Same EXCEPT !.calls = <<"startRecording">>,
                               !.recording = TRUE,
                               !.resp = Put(Success, "filepath", "recording.wav")]
      [] msg.action = "stopRecording" ->
           [Same EXCEPT !.calls = <<"stopRecording">>,
                        !.recording = FALSE,
                        !.resp = Success]
      [] msg.action = "playBackingTrack" ->
           [Same EXCEPT !.calls = <<"play">>, !.resp = Success]
      [] msg.action = "setIncludeBackingTrackInRecording" ->
           [Same EXCEPT !.calls = <<"setIncludeBackingTrackInRecording">>,
                        !.include = msg.flag,
                        !.resp = Put(Success, "enabled", msg.flag)]
      [] OTHER -> [Same EXCEPT !.resp = Failure("Unknown action")]

\* json::parse of a message that is not JSON throws; cmd.value on a value
\* that is not an object, or for an argument of the wrong type, throws:
\* the catch clause builds the response
Throws(msg) ==
    \/ msg.kind # "object"
    \/ msg.action \in SlotActions /\ ~msg.slotIsNumber

Handled(msg) ==
    IF Throws(msg) THEN [Same EXCEPT !.resp = Failure("JSON parse error")]
    ELSE Branch(msg)

\* handleCommand, up to the return or to the truncation of the runtime
\* file by the save
HandleCommand(msg) ==
    /\ hpc = "h_idle"
    /\ ipcOps < MaxIpcOps
    /\ ipcOps' = ipcOps + 1
    /\ request' = msg
    /\ LET h == Handled(msg) IN
          /\ response' = h.resp
          /\ calls' = h.calls
          /\ m_activeSlot' = h.activeSlot
          /\ m_activeSlotL' = h.activeSlotL
          /\ m_activeSlotR' = h.activeSlotR
          /\ m_bypass' = h.bypass
          /\ m_bypassModel' = h.bypassModel
          /\ m_includeBackingTrackInRecording' = h.include
          /\ m_recording' = h.recording
          /\ slotState' = h.slots
          /\ IF h.save
               THEN /\ runtimeFile' = [complete |-> FALSE, doc |-> h.doc]
                    /\ hpc' = "h_write"
               ELSE UNCHANGED <<runtimeFile, hpc>>
    /\ UNCHANGED outsideIpc

\* ConfigPersistence::save: file << config.dump(2); file.close(); the
\* handler returns the response
SaveWrite ==
    /\ hpc = "h_write"
    /\ runtimeFile' = [runtimeFile EXCEPT !.complete = TRUE]
    /\ hpc' = "h_idle"
    /\ UNCHANGED <<slotCells, m_bypassModel, slotState, request, calls, response, ipcOps>>
    /\ UNCHANGED <<m_bypass, m_includeBackingTrackInRecording, m_recording>>
    /\ UNCHANGED outsideIpc

\* the process dies (power loss, kill) before the text is on disk
SaveCrash ==
    /\ hpc = "h_write"
    /\ hpc' = "h_dead"
    /\ UNCHANGED <<slotCells, m_bypassModel, runtimeFile, slotState, request, calls,
                   response, ipcOps>>
    /\ UNCHANGED <<m_bypass, m_includeBackingTrackInRecording, m_recording>>
    /\ UNCHANGED outsideIpc

\* the worker thread of a slot finishes the load that loadModelAsync
\* requested: the slot is ready
SlotLoadDone(slot) ==
    /\ hpc # "h_dead"
    /\ slotState[slot] = "loading"
    /\ slotState' = [slotState EXCEPT ![slot] = "ready"]
    /\ UNCHANGED <<slotCells, m_bypassModel, runtimeFile, hpc, request, calls, response,
                   ipcOps>>
    /\ UNCHANGED <<m_bypass, m_includeBackingTrackInRecording, m_recording>>
    /\ UNCHANGED outsideIpc

IpcNext ==
    \/ \E msg \in Messages : HandleCommand(msg)
    \/ SaveWrite
    \/ SaveCrash
    \/ \E slot \in {0, 1} : SlotLoadDone(slot)

IpcSpec == AllInit /\ [][IpcNext]_allVars

(***************************************************************************)
(* Properties of the control socket.                                       *)
(***************************************************************************)
\* a step that handles a message
Handles == ipcOps' = ipcOps + 1

\* the engine cells and the runtime file
ipcState == <<slotCells, m_bypass, m_bypassModel, m_includeBackingTrackInRecording,
              m_recording, runtimeFile, slotState>>

\* the message does not parse, names no known action, or has a slot
\* argument outside {0, 1}
Rejected(msg) ==
    \/ msg.kind # "object"
    \/ msg.action \notin KnownActions
    \/ msg.action \in SlotActions /\ msg.slotIsNumber /\ msg.slot \notin {0, 1}

MutatingActions == KnownActions \ {"getStatus"}

\* C27: every successfully handled action that changes engine, recorder or
\* backing-track state ends with the status-change callback: it is the last
\* call the handler makes before it returns the response.
C27_MutationNotifies ==
    [][ (Handles /\ request'.action \in MutatingActions /\ response'.success)
           => (calls' # <<>> /\ calls'[Len(calls')] = "notifyStatusChange")
      ]_allVars

\* the handler's calls that rewrite the runtime document
SaveCalls == {"saveModelConfig", "saveActiveSlot", "clearSlotConfig"}

\* C28: the runtime file holds a complete document at every moment, and a
\* handled setActiveModel / setActiveModelL / setActiveModelR / setBypass /
\* setBypassModel has rewritten it.
C28_RuntimeFileCompleteAndCurrent ==
    /\ runtimeFile.complete
    /\ (/\ request.kind = "object" /\ "success" \in DOMAIN response /\ response.success
        /\ request.action \in {"setActiveModel", "setActiveModelL", "setActiveModelR",
                                "setBypass", "setBypassModel"})
       => \E i \in DOMAIN calls : calls[i] \in SaveCalls

\* the slot the audio thread uses for the left (guitar) chain:
\* processStereo loads m_activeSlotL
LeftChainSlot == m_activeSlotL

\* C29: a handled setActiveModel(s) leaves the three active-slot cells equal
\* to s, and the activeModel that getStatus reports is the slot the audio
\* thread uses for the left chain.
C29_ActiveModelIsSlotInUse ==
    [][ /\ (Handles /\ request'.action = "setActiveModel" /\ response'.success)
           => /\ m_activeSlot' = request'.slot
              /\ m_activeSlotL' = request'.slot
              /\ m_activeSlotR' = request'.slot
        /\ (Handles /\ request'.action = "getStatus" /\ request'.kind = "object")
           => response'.activeModel = LeftChainSlot
      ]_allVars

\* the other slot
OtherSlot(slot) == 1 - slot

\* the audio thread runs blocks through the model of this slot: the engine
\* is not bypassed, the slot is the active one of the left chain and is ready
ProcessedThrough(slot) ==
    ~m_bypass /\ m_activeSlotL = slot /\ slotState[slot] = "ready"

\* C39: a handled unloadModel(s) with the other slot ready and active leaves
\* the engine out of whole-engine bypass, blocks still going through that
\* slot's model; and no control action turns whole-engine bypass on unless
\* it is setBypass(true) or leaves no slot ready.
C39_UnloadLeavesOtherSlotPlaying ==
    [][ /\ \A slot \in {0, 1} :
             (/\ Handles /\ request'.action = "unloadModel" /\ response'.success
              /\ request'.slot = OtherSlot(slot)
              /\ ProcessedThrough(slot))
             => ProcessedThrough(slot)'
        /\ (Handles /\ ~m_bypass /\ m_bypass')
           => \/ request'.action = "setBypass" /\ request'.flag
              \/ \A slot \in {0, 1} : slotState'[slot] # "ready"
      ]_allVars


(***************************************************************************)
(* Part 10: Reverb.  The setters store their atomic cell and then call     *)
(* reconfigure() on the calling thread: it loads the cells and calls       *)
(* Impl::configure, which assigns the plain members dry / wet / decayGain, *)
(* then for every delay line assigns delaySamples[c], resizes delays[c]    *)
(* and resets it.  process() calls Impl::processStereo per sample, which   *)
(* reads the lines at delaySamples[c] and mixes with dry / wet.  One step  *)
(* per assignment group of configure and per sample of process.            *)
(***************************************************************************)
ReverbControlIdle == gpc = "g_idle" /\ reverbOps < MaxReverbOps /\ vpc # "v_crashed"

\* setEnabled: m_enabled.store(enabled)
ReverbSetEnabled(enabled) ==
    /\ ReverbControlIdle
    /\ reverbEnabled' = enabled
    /\ reverbOps' = reverbOps + 1
    /\ UNCHANGED <<m_roomSize, m_wet, implVars, reverbAudio, gpc>>
    /\ UNCHANGED outsideReverb

\* setRoomSize: m_roomSize.store(size); reconfigure()
ReverbSetRoomSize(size) ==
    /\ ReverbControlIdle
    /\ m_roomSize' = size
    /\ gpc' = "g_mix"
    /\ reverbOps' = reverbOps + 1
    /\ UNCHANGED <<reverbEnabled, m_wet, implVars, reverbAudio>>
    /\ UNCHANGED outsideReverb

\* setMix: m_dry.store, m_wet.store; reconfigure()
ReverbSetMix(level) ==
    /\ ReverbControlIdle
    /\ m_wet' = level
    /\ gpc' = "g_mix"
    /\ reverbOps' = reverbOps + 1
    /\ UNCHANGED <<reverbEnabled, m_roomSize, implVars, reverbAudio>>
    /\ UNCHANGED outsideReverb

\* Impl::configure: dry = dryLevel; wet = wetLevel; feedback.decayGain = ...
ConfigureMix ==
    /\ gpc = "g_mix" /\ vpc # "v_crashed"
    /\ wet' = m_wet
    /\ gpc' = "g_samples"
    /\ UNCHANGED <<reverbCells, delaySamples, delayLength, reverbAudio, reverbOps>>
    /\ UNCHANGED outsideReverb

\* FeedbackNetwork::configure: delaySamples[c] = pow(2, r) * delaySamplesBase
ConfigureDelaySamples ==
    /\ gpc = "g_samples" /\ vpc # "v_crashed"
    /\ delaySamples' = DelayFor(m_roomSize)
    /\ gpc' = "g_resize"
    /\ UNCHANGED <<reverbCells, wet, delayLength, reverbAudio, reverbOps>>
    /\ UNCHANGED outsideReverb

\* delays[c].resize(delaySamples[c] + 1); delays[c].reset()
ConfigureResize ==
    /\ gpc = "g_resize" /\ vpc # "v_crashed"
    /\ delayLength' = delaySamples + 1
    /\ gpc' = "g_idle"
    /\ UNCHANGED <<reverbCells, wet, delaySamples, reverbAudio, reverbOps>>
    /\ UNCHANGED outsideReverb

\* Reverb::process(..., n): if (!m_enabled.load()) copy and return
ReverbProcess(n) ==
    /\ vpc = "v_idle"
    /\ reverbBlocks < MaxReverbOps
    /\ reverbBlocks' = reverbBlocks + 1
    /\ vNum' = n
    /\ vI' = 0
    /\ vpc' = IF reverbEnabled THEN "v_loop" ELSE "v_idle"
    /\ vLast' = IF reverbEnabled THEN vLast ELSE <<"copy">>
    /\ UNCHANGED <<reverbCells, implVars, gpc, reverbOps>>
    /\ UNCHANGED outsideReverb

\* one iteration: m_impl->processStereo: delays[c].read(delaySamples[c]),
\* dry * input + wet * sum.  A read at an offset the line does not hold
\* (delaySamples assigned, line not resized yet) is outside its storage:
\* some value, or a fault.
ReverbSample ==
    /\ vpc = "v_loop"
    /\ \/ /\ delaySamples < delayLength
          /\ vLast' = <<"wet", wet, "delay", delaySamples>>
          /\ vI' = vI + 1
          /\ vpc' = IF vI + 1 < vNum THEN "v_loop" ELSE "v_idle"
       \/ /\ delaySamples >= delayLength
          /\ vLast' = <<"outside">>
          /\ vI' = vI + 1
          /\ vpc' = IF vI + 1 < vNum THEN "v_loop" ELSE "v_idle"
       \/ /\ delaySamples >= delayLength
          /\ vpc' = "v_crashed"
          /\ UNCHANGED <<vLast, vI>>
    /\ UNCHANGED <<reverbCells, implVars, vNum, reverbBlocks, gpc, reverbOps>>
    /\ UNCHANGED outsideReverb

ReverbNext ==
    \/ \E enabled \in BOOLEAN : ReverbSetEnabled(enabled)
    \/ \E size \in RoomInputs : ReverbSetRoomSize(size)
    \/ \E level \in WetInputs : ReverbSetMix(level)
    \/ ConfigureMix
    \/ ConfigureDelaySamples
    \/ ConfigureResize
    \/ \E n \in 1..MaxBlock : ReverbProcess(n)
    \/ ReverbSample

ReverbSpec == AllInit /\ [][ReverbNext]_allVars

(***************************************************************************)
(* Properties of the reverb.                                               *)
(***************************************************************************)
\* the audio thread is inside Reverb::process
InReverbProcess == vpc = "v_loop"

\* C37: while the audio thread is inside Reverb::process, the delay lines
\* and the mix values it reads are not resized, reset or rewritten: a
\* setter changes only the atomic cells.
C37_ImplUntouchedDuringProcess ==
    [][ InReverbProcess => UNCHANGED implVars ]_allVars


(***************************************************************************)
(* Part 11: the two channel chains of Engine::processStereo.  A block is   *)
(* one step; stagesL / stagesR list, in order, the input each chain took   *)
(* and the stages that ran on its buffer.  A gain stage runs only when the *)
(* smoothed gain is not 1.0.  The left gain and gate, the DC blockers and  *)
(* the output gains follow the same pattern as the stages kept here.       *)
(***************************************************************************)
ChainControlIdle == chainOps < MaxChainOps

\* setStereoMode: m_stereoMode.store(mode)
SetStereoMode(mode) ==
    /\ ChainControlIdle
    /\ m_stereoMode' = mode
    /\ chainOps' = chainOps + 1
    /\ UNCHANGED <<m_bypassModelL, m_bypassModelR, m_noiseGateEnabledR, m_inputGainLinearR,
                   m_currentInputGainR, rightBlocks, stagesL, stagesR, chainBlocks>>
    /\ UNCHANGED <<m_activeSlotL, m_activeSlotR, slotState>>
    /\ UNCHANGED outsideChain

\* setBypassModelL: m_bypassModelL.store(bypass)
SetBypassModelL(bypass) ==
    /\ ChainControlIdle
    /\ m_bypassModelL' = bypass
    /\ chainOps' = chainOps + 1
    /\ UNCHANGED <<m_stereoMode, m_bypassModelR, m_noiseGateEnabledR, m_inputGainLinearR,
                   m_currentInputGainR, rightBlocks, stagesL, stagesR, chainBlocks>>
    /\ UNCHANGED <<m_activeSlotL, m_activeSlotR, slotState>>
    /\ UNCHANGED outsideChain

\* setBypassModelR: m_bypassModelR.store(bypass)
SetBypassModelR(bypass) ==
    /\ ChainControlIdle
    /\ m_bypassModelR' = bypass
    /\ chainOps' = chainOps + 1
    /\ UNCHANGED <<m_stereoMode, m_bypassModelL, m_noiseGateEnabledR, m_inputGainLinearR,
                   m_currentInputGainR, rightBlocks, stagesL, stagesR, chainBlocks>>
    /\ UNCHANGED <<m_activeSlotL, m_activeSlotR, slotState>>
    /\ UNCHANGED outsideChain

\* setActiveModelR: if (slot >= 0 && slot < 2) m_activeSlotR.store(slot)
SetActiveModelR(slot) ==
    /\ ChainControlIdle
    /\ m_activeSlotR' = IF slot >= 0 /\ slot < 2 THEN slot ELSE m_activeSlotR
    /\ chainOps' = chainOps + 1
    /\ UNCHANGED <<chainCells, m_currentInputGainR, rightBlocks, stagesL, stagesR,
                   chainBlocks>>
    /\ UNCHANGED <<m_activeSlotL, slotState>>
    /\ UNCHANGED outsideChain

\* setInputGainR: m_inputGainLinearR.store(dbToLinear(gainDB))
SetInputGainR(linear) ==
    /\ ChainControlIdle
    /\ m_inputGainLinearR' = linear
    /\ chainOps' = chainOps + 1
    /\ UNCHANGED <<m_stereoMode, m_bypassModelL, m_bypassModelR, m_noiseGateEnabledR,
                   m_currentInputGainR, rightBlocks, stagesL, stagesR, chainBlocks>>
    /\ UNCHANGED <<m_activeSlotL, m_activeSlotR, slotState>>
    /\ UNCHANGED outsideChain

\* setNoiseGateR: m_noiseGateEnabledR.store(enabled)
SetNoiseGateR(enabled) ==
    /\ ChainControlIdle
    /\ m_noiseGateEnabledR' = enabled
    /\ chainOps' = chainOps + 1
    /\ UNCHANGED <<m_stereoMode, m_bypassModelL, m_bypassModelR, m_inputGainLinearR,
                   m_currentInputGainR, rightBlocks, stagesL, stagesR, chainBlocks>>
    /\ UNCHANGED <<m_activeSlotL, m_activeSlotR, slotState>>
    /\ UNCHANGED outsideChain

\* a load of the slot completes (loadModelAsync, then the worker's
\* m_ready.store(true)), or unloadModel(slot) empties it
ChainSlotReady(slot, ready) ==
    /\ ChainControlIdle
    /\ slotState' = [slotState EXCEPT ![slot] = IF ready THEN "ready" ELSE "empty"]
    /\ chainOps' = chainOps + 1
    /\ UNCHANGED <<chainCells, m_currentInputGainR, rightBlocks, stagesL, stagesR,
                   chainBlocks>>
    /\ UNCHANGED <<m_activeSlotL, m_activeSlotR>>
    /\ UNCHANGED outsideChain

\* selectedInputL and the Stereo2Mono mix
selectedInputL(mode, hasR) ==
    IF mode = "Stereo2Mono" /\ hasR THEN "mixLR"
    ELSE IF mode = "RightMono2Stereo" /\ hasR THEN "inputR"
    ELSE "inputL"

\* selectedInputR
selectedInputR(mode, hasR) ==
    IF (mode = "Stereo2Stereo" \/ mode = "RightMono2Stereo") /\ hasR THEN "inputR"
    ELSE "inputL"

Stage(cond, name) == IF cond THEN <<name>> ELSE <<>>

\* the left chain: model of the active left slot, EQ
LeftChain(mode, hasR) ==
    <<selectedInputL(mode, hasR)>>
    \o Stage(~m_bypassModelL /\ m_activeSlotL >= 0 /\ m_activeSlotL < 2
               /\ slotState[m_activeSlotL] = "ready", "model")
    \o <<"eqL">>

\* the right chain of Stereo2Stereo: input gain, gate, EQ -- no model stage
RightChain(mode, hasR, gainR) ==
    <<selectedInputR(mode, hasR)>>
    \o Stage(gainR # UnityGain, "gainR")
    \o Stage(m_noiseGateEnabledR, "gateR")
    \o <<"eqR">>

\* processStereo past the bypass test: mode load, smoothGains(), left
\* chain, then the right chain or the copy of the left buffer
ProcessStereoChains(hasR) ==
    /\ ~m_bypass
    /\ chainBlocks < MaxChainBlocks
    /\ chainBlocks' = chainBlocks + 1
    /\ m_currentInputGainR' = SmoothGain(m_currentInputGainR, m_inputGainLinearR)
    /\ stagesL' = LeftChain(m_stereoMode, hasR)
    /\ IF m_stereoMode = "Stereo2Stereo"
       THEN /\ stagesR' = RightChain(m_stereoMode, hasR,
                                      SmoothGain(m_currentInputGainR, m_inputGainLinearR))
            /\ rightBlocks' = rightBlocks + 1
       ELSE /\ stagesR' = LeftChain(m_stereoMode, hasR)
            /\ UNCHANGED rightBlocks
    /\ UNCHANGED <<chainCells, chainOps>>
    /\ UNCHANGED <<m_activeSlotL, m_activeSlotR, slotState>>
    /\ UNCHANGED outsideChain

ChainNext ==
    \/ \E mode \in StereoModes : SetStereoMode(mode)
    \/ \E bypass \in BOOLEAN : SetBypassModelL(bypass)
    \/ \E bypass \in BOOLEAN : SetBypassModelR(bypass)
    \/ \E slot \in {0, 1} : SetActiveModelR(slot)
    \/ \E linear \in GainInputs : SetInputGainR(linear)
    \/ \E enabled \in BOOLEAN : SetNoiseGateR(enabled)
    \/ \E slot \in {0, 1}, ready \in BOOLEAN : ChainSlotReady(slot, ready)
    \/ \E hasR \in BOOLEAN : ProcessStereoChains(hasR)

ChainSpec == AllInit /\ [][ChainNext]_allVars

(***************************************************************************)
(* Properties of the channel chains.                                       *)
(***************************************************************************)
HasStage(stages, name) == \E i \in 1..Len(stages) : stages[i] = name

ChainBlockDone == chainBlocks' # chainBlocks

\* C38: in Stereo2Stereo the right chain runs no model, whatever
\* bypassModelR and activeSlotR are; in the other modes the right output is
\* the processed left buffer and the right channel's state (its smoothed
\* gain, its gate, EQ and DC blocker) is neither used nor modified.
C38_RightChainModelFreeOrCopy ==
    [][ ChainBlockDone =>
          /\ m_stereoMode = "Stereo2Stereo" => ~HasStage(stagesR', "model")
          /\ m_stereoMode # "Stereo2Stereo" =>
                /\ stagesR' = stagesL'
                /\ UNCHANGED <<m_currentInputGainR, rightBlocks>>
      ]_allVars

\* the part of C38 about Stereo2Stereo alone
C38_StereoRightRunsNoModel ==
    [][ (ChainBlockDone /\ m_stereoMode = "Stereo2Stereo")
          => ~HasStage(stagesR', "model") ]_allVars


(***************************************************************************)
(* Part 12: ConfigPersistence.  Every save operation is load(), assignment *)
(* of its keys in the loaded value, save().  The path is the default one.  *)
(* Other programs and the file system change the file between operations.  *)
(***************************************************************************)
\* values stored under a key (a path, a slot number, a gain)
CfgValues == {1, 2}

\* the keys the save operations of this part write
RecognizedKeys == {"slot0Model", "slot1Model", "activeSlot", "inputGain", "outputGain"}

GroupKeys(group) ==
    CASE group = "model0" -> {"slot0Model"}
      [] group = "model1" -> {"slot1Model"}
      [] group = "activeSlot" -> {"activeSlot"}
      [] group = "gain" -> {"inputGain", "outputGain"}
      [] OTHER -> {}

ModelGroup(slot) == IF slot = 0 THEN "model0" ELSE "model1"

\* load(): an empty object unless the file exists, opens and parses; a
\* parse error is caught and gives the empty object; JSON that is not an
\* object is returned as it is
Loaded ==
    IF configFile.kind = "object" /\ configFile.readable
    THEN [isObject |-> TRUE, doc |-> configFile.doc]
    ELSE IF configFile.kind = "array" /\ configFile.readable
    THEN [isObject |-> FALSE, doc |-> EmptyDoc]
    ELSE [isObject |-> TRUE, doc |-> EmptyDoc]

CfgIdle == cfgOps < MaxCfgOps

\* config[key] = value / config.erase(key) on the loaded value, then
\* save(config).  On a value that is not an object the assignment throws
\* json::type_error out of the operation and nothing is written.  save()
\* opens the file for writing, which truncates it, writes dump(2) and
\* returns true; it returns false when the file does not open.
SaveEdited(group, doc) ==
    /\ CfgIdle
    /\ cfgOps' = cfgOps + 1
    /\ IF ~Loaded.isObject
       THEN /\ cfgLast' = [group |-> group, result |-> "threw"]
            /\ UNCHANGED configFile
       ELSE \/ /\ configFile' = [kind |-> "object", doc |-> doc,
                                   readable |-> configFile.readable]
               /\ cfgLast' = [group |-> group, result |-> "saved"]
            \/ /\ cfgLast' = [group |-> group, result |-> "not_opened"]
               /\ UNCHANGED configFile
    /\ UNCHANGED outsideCfg

\* saveModelConfig(modelPath, slot)
SaveModelConfig(modelPath, slot) ==
    SaveEdited(ModelGroup(slot), Put(Loaded.doc, SlotKey(slot), modelPath))

\* saveActiveSlot(slot)
SaveActiveSlot(slot) ==
    SaveEdited("activeSlot", Put(Loaded.doc, "activeSlot", slot))

\* clearSlotConfig(slot)
ClearSlotConfig(slot) ==
    SaveEdited(ModelGroup(slot), Erase(Loaded.doc, SlotKey(slot)))

\* saveGainSettings(inputGain, outputGain)
SaveGainSettings(inputGain, outputGain) ==
    SaveEdited("gain", Put(Put(Loaded.doc, "inputGain", inputGain),
                           "outputGain", outputGain))

\* the file's permissions change: it can, or cannot, be opened for reading
FileReadable(readable) ==
    /\ CfgIdle
    /\ configFile.kind # "missing"
    /\ configFile.readable # readable
    /\ configFile' = [configFile EXCEPT !.readable = readable]
    /\ cfgLast' = [group |-> "none", result |-> "none"]
    /\ cfgOps' = cfgOps + 1
    /\ UNCHANGED outsideCfg

\* the file is left with content that is not a JSON object: JSON of another
\* type ("array"), or text that is not JSON ("corrupt")
FileReplaced(kind) ==
    /\ CfgIdle
    /\ configFile' = [kind |-> kind, doc |-> EmptyDoc, readable |-> configFile.readable]
    /\ cfgLast' = [group |-> "none", result |-> "none"]
    /\ cfgOps' = cfgOps + 1
    /\ UNCHANGED outsideCfg

CfgNext ==
    \/ \E modelPath \in CfgValues, slot \in {0, 1} : SaveModelConfig(modelPath, slot)
    \/ \E slot \in {0, 1} : SaveActiveSlot(slot)
    \/ \E slot \in {0, 1} : ClearSlotConfig(slot)
    \/ \E inputGain \in CfgValues, outputGain \in CfgValues :
          SaveGainSettings(inputGain, outputGain)
    \/ \E readable \in BOOLEAN : FileReadable(readable)
    \/ \E kind \in {"array", "corrupt"} : FileReplaced(kind)

CfgSpec == AllInit /\ [][CfgNext]_allVars

(***************************************************************************)
(* Properties of the persisted document.                                   *)
(***************************************************************************)
\* the value the file holds under a key: <<v>>, or <<>> when it holds none
OnDisk(key) ==
    IF configFile.kind = "object" /\ key \in DOMAIN configFile.doc
    THEN <<configFile.doc[key]>>
    ELSE <<>>

SaveOperationDone == cfgOps' # cfgOps /\ cfgLast'.group # "none"

\* C40: a save operation for one group of keys leaves every recognized key
\* outside the group with the value the file held for it before, whatever
\* the file was: missing, unreadable, not JSON, not an object.
C40_SaveChangesOnlyItsGroup ==
    [][ SaveOperationDone =>
          \A key \in RecognizedKeys \ GroupKeys(cfgLast'.group) :
              OnDisk(key)' = OnDisk(key) ]_allVars

====
